---------------------------- MODULE Spec2Model ----------------------------
(***************************************************************************)
(* A model of the validation / normalisation layer of the Eurorack module  *)
(* designer: ModuleDesignService (module validation, normalisation and the *)
(* derived fields) and ProjectManagementService (project validation and    *)
(* the project store).                                                     *)
(*                                                                         *)
(* JavaScript values are modelled as tagged records                        *)
(*     [k |-> kind, n |-> number, s |-> characters, r |-> rails,           *)
(*      a |-> array elements]                                              *)
(* with k one of "undefined", "null", "number", "NaN", "string", "object", *)
(* "array".  Only the payload that belongs to the kind is meaningful; the  *)
(* others hold a fixed filler.  Dimensions (width, height, depth) are      *)
(* fixed-point numbers counted in 1/Scale, so 128.5 is 1285.  Currents     *)
(* (mA) and instants (ms) are whole numbers.                               *)
(***************************************************************************)
EXTENDS Integers, Sequences, FiniteSets, TLC

VARIABLES
    pc,                 \* position of the module-service scenario
    moduleSpec,         \* the record handed to the module service
    validationResult,   \* what _validateModuleSpec(moduleSpec) did
    module,             \* createModule(moduleSpec)
    module2,            \* createModule(module), when module is not null
    lastCall,           \* the project-service operation that ran last
    projectSpec,        \* the record handed to createProject
    project,            \* what createProject / updateProject returned
    projectId,          \* the id handed to updateProject
    updates,            \* the updates handed to updateProject
    found,              \* what getProjectById(projectId) returned to updateProject
    projectValidation,  \* what _validateProjectSpec returned to the last call
    localStorage,       \* the stored project list (localStorage[_storageKey])
    _projectCache,      \* ProjectManagementService._projectCache
    now,                \* Date.now()
    generationSpec,     \* the record handed to _validateGenerationSpec
    generationResult,   \* what _validateGenerationSpec(generationSpec) did
    currentModule,      \* the editor's this.currentModule
    controls,           \* the editor's this.controls
    scene,              \* whether the editor's this.scene is set
    currentModel,       \* the editor's this.currentModel
    moduleGroup,        \* what create3DModel returned last
    exportData,         \* what exportModel handed to downloadFile last
    calls,              \* how often each projector operation has run
    addControlMode,     \* the editor's this.addControlMode
    listeners,          \* the mousemove/mouseup listeners of the drags under way
    rackModules,        \* the editor's this.rackModules
    inFlight,           \* the generateModel() calls that have not returned
    progressModalHidden, \* class 'hidden' of #progressModal
    btnLoading,         \* class 'loading' of #generateModel
    currentProject,     \* AppController._state.currentProject
    utilization         \* what validateRackUtilization returned last

vars == <<pc, moduleSpec, validationResult, module, module2,
          lastCall, projectSpec, project, projectId, updates, found,
          projectValidation, localStorage, _projectCache, now,
          generationSpec, generationResult,
          currentModule, controls, scene, currentModel, moduleGroup, exportData,
          calls, addControlMode, listeners, rackModules,
          inFlight, progressModalHidden, btnLoading, currentProject,
          utilization>>

moduleVars == <<pc, moduleSpec, validationResult, module, module2>>
projectVars == <<lastCall, projectSpec, project, projectId, updates, found,
                 projectValidation, localStorage, _projectCache, now>>
generationVars == <<generationSpec, generationResult>>
editorVars == <<currentModule, controls, scene, currentModel, exportData>>
projectorVars == <<editorVars, moduleGroup, calls>>
panelVars == <<addControlMode, listeners, rackModules>>
progressVars == <<inFlight, progressModalHidden, btnLoading>>
sessionVars == <<panelVars, progressVars, currentProject, utilization>>

-----------------------------------------------------------------------------
(* Bounds of the model *)

\* names are drawn from all strings over {" ", "a"} up to this length
MaxNameLen == 2
\* Date.now() advances from 1 up to this instant
MaxClock == 3
\* the random suffix of a project id is drawn from 1..MaxRandom
MaxRandom == 2
\* a control list holds up to this many controls
MaxControls == 2
\* each projector operation runs up to this many times
MaxCalls == 2
\* the library holds up to this many modules
MaxLibrary == 1
\* up to this many drags are under way at once
MaxDrags == 1
\* up to this many generateModel() calls are under way at once
MaxGenerate == 2
\* a persisted project holds up to this many modules
MaxModules == 3

-----------------------------------------------------------------------------
(* Program constants *)

\* fixed-point resolution of the modelled dimensions: one decimal digit
Scale == 10
\* _standards.hpUnit = 5.08 mm, counted in 1/100 mm
hpUnit == 508
\* _moduleSchema
NameMinLength == 1
NameMaxLength == 50
WidthMin == 2
WidthMax == 42
HeightMin == 100
HeightMax == 150
DepthMin == 20
DepthMax == 45
\* _validatePowerDraw: maxPowerPerRail
maxPowerPerRail == 500
\* _projectSchema
ProjectNameMinLength == 1
ProjectNameMaxLength == 100
DescriptionMaxLength == 500
RackWidthMin == 84
RackWidthMax == 168
\* _validatePowerSupply: maxCurrentPerRail
maxCurrentPerRail == 2000
\* AIGenerationService._modelSchema
GenerationDimMin == 10
GenerationDimMax == 500
ImagesMinLength == 1
ImagesMaxLength == 5

\* _standards.powerConnectors
powerConnectors == <<"+12V", "-12V", "+5V">>
Rails == {"+12V", "-12V", "+5V"}

-----------------------------------------------------------------------------
(* JavaScript values *)

\* a rail an object does not have
RailUndefined == [k |-> "undefined", n |-> 0]
RailNum(i) == [k |-> "number", n |-> i]
RailNaN == [k |-> "NaN", n |-> 0]
RailStr == [k |-> "string", n |-> 0]       \* a non-empty string such as "high"
\* the rails payload of a value that is not an object
NoRails == <<>>

Undefined == [k |-> "undefined", n |-> 0, s |-> <<>>, r |-> NoRails, a |-> <<>>]
Null == [k |-> "null", n |-> 0, s |-> <<>>, r |-> NoRails, a |-> <<>>]
NaN == [k |-> "NaN", n |-> 0, s |-> <<>>, r |-> NoRails, a |-> <<>>]
Num(i) == [k |-> "number", n |-> i, s |-> <<>>, r |-> NoRails, a |-> <<>>]
Str(chars) == [k |-> "string", n |-> 0, s |-> chars, r |-> NoRails, a |-> <<>>]
Obj(rails) == [k |-> "object", n |-> 0, s |-> <<>>, r |-> rails, a |-> <<>>]
Arr(elems) == [k |-> "array", n |-> 0, s |-> <<>>, r |-> NoRails, a |-> elems]

\* the typeof operator
TypeOf(v) ==
    CASE v.k = "undefined" -> "undefined"
      [] v.k = "null" -> "object"
      [] v.k = "number" -> "number"
      [] v.k = "NaN" -> "number"
      [] v.k = "string" -> "string"
      [] v.k = "object" -> "object"
      [] v.k = "array" -> "object"

\* ToBoolean: what `value || 0` and `cond ? a : b` test
Truthy(v) ==
    CASE v.k = "undefined" -> FALSE
      [] v.k = "null" -> FALSE
      [] v.k = "NaN" -> FALSE
      [] v.k = "number" -> v.n # 0
      [] v.k = "string" -> v.s # <<>>
      [] v.k = "object" -> TRUE
      [] v.k = "array" -> TRUE

\* value < bound and value > bound for a number-typed value: every
\* comparison with NaN is false
LessThan(v, bound) == v.k = "number" /\ v.n < bound
GreaterThan(v, bound) == v.k = "number" /\ v.n > bound

\* powerDraw[rail]: a property read throws on undefined and null, yields
\* undefined on a primitive, and the stored value on an object
CanReadProperty(v) == v.k \notin {"undefined", "null"}
GetRail(v, rail) == IF v.k = "object" THEN v.r[rail] ELSE RailUndefined

\* draw || 0 for a rail value
RailTruthy(d) == (d.k = "number" /\ d.n # 0) \/ d.k = "string"
RailOrZero(d) == IF RailTruthy(d) THEN d ELSE RailNum(0)

\* Math.round: the nearest integer, halves towards +infinity; NaN stays NaN
MathRound(v) ==
    IF v.k = "number" THEN Num(((v.n + (Scale \div 2)) \div Scale) * Scale) ELSE NaN

\* String.prototype.trim
IsSpace(c) == c = " "
RECURSIVE TrimStart(_)
TrimStart(chars) ==
    IF chars # <<>> /\ IsSpace(Head(chars)) THEN TrimStart(Tail(chars)) ELSE chars
RECURSIVE TrimEnd(_)
TrimEnd(chars) ==
    IF chars # <<>> /\ IsSpace(chars[Len(chars)])
    THEN TrimEnd(SubSeq(chars, 1, Len(chars) - 1))
    ELSE chars
Trim(chars) == TrimEnd(TrimStart(chars))

-----------------------------------------------------------------------------
(* ModuleDesignService: the schema *)

\* one field's rule set; type "" and validator "" stand for an absent rule, and
\* hasMin / hasMax say whether min / max are declared
Rules(required, type, hasMin, min, hasMax, max, minLength, maxLength, validator) ==
    [required |-> required, type |-> type, hasMin |-> hasMin, min |-> min,
     hasMax |-> hasMax, max |-> max, minLength |-> minLength,
     maxLength |-> maxLength, validator |-> validator]

_moduleSchema ==
    [name |-> Rules(TRUE, "string", FALSE, 0, FALSE, 0,
                    NameMinLength, NameMaxLength, ""),
     width |-> Rules(TRUE, "number", TRUE, WidthMin * Scale, TRUE, WidthMax * Scale,
                     0, 0, ""),
     height |-> Rules(TRUE, "number", TRUE, HeightMin * Scale, TRUE, HeightMax * Scale,
                      0, 0, ""),
     depth |-> Rules(TRUE, "number", TRUE, DepthMin * Scale, TRUE, DepthMax * Scale,
                     0, 0, ""),
     powerDraw |-> Rules(FALSE, "", FALSE, 0, FALSE, 0, 0, 0, "_validatePowerDraw")]

\* Object.keys(this._moduleSchema), in insertion order
moduleSchemaKeys == <<"name", "width", "height", "depth", "powerDraw">>

\* an error message: the field it names, the rule that failed and, for a power
\* rail message, the rail
Message(key, rule, rail) == [key |-> key, rule |-> rule, rail |-> rail]

-----------------------------------------------------------------------------
(* ModuleDesignService._validatePowerDraw *)

\* the messages one rail contributes
RailErrors(powerDraw, rail) ==
    LET draw == RailOrZero(GetRail(powerDraw, rail))
    IN  IF draw.k # "number"
        THEN <<Message("powerDraw", "rail must be a number", rail)>>
        ELSE (IF draw.n < 0
              THEN <<Message("powerDraw", "rail cannot be negative", rail)>>
              ELSE <<>>)
             \o (IF draw.n > maxPowerPerRail
                 THEN <<Message("powerDraw", "rail cannot exceed", rail)>>
                 ELSE <<>>)

\* threw: powerDraw[rail] raised a TypeError (powerDraw undefined or null)
_validatePowerDraw(powerDraw) ==
    IF ~CanReadProperty(powerDraw)
    THEN [threw |-> TRUE, isValid |-> FALSE, errors |-> <<>>]
    ELSE LET errors == RailErrors(powerDraw, powerConnectors[1])
                       \o RailErrors(powerDraw, powerConnectors[2])
                       \o RailErrors(powerDraw, powerConnectors[3])
         IN  [threw |-> FALSE, isValid |-> errors = <<>>, errors |-> errors]

-----------------------------------------------------------------------------
(* ModuleDesignService._validateModuleSpec *)

\* lines 105-112 with the comparisons turned round: a value on the bound fails
MinMaxErrorsInclusive(key, fieldSchema, value) ==
    (IF fieldSchema.hasMin /\ value.k = "number" /\ value.n <= fieldSchema.min
     THEN <<Message(key, "must be at least", "")>> ELSE <<>>)
    \o (IF fieldSchema.hasMax /\ value.k = "number" /\ value.n >= fieldSchema.max
        THEN <<Message(key, "must be at most", "")>> ELSE <<>>)

\* lines 105-112 with the min test lost
MinMaxErrorsNoMin(key, fieldSchema, value) ==
    IF fieldSchema.hasMax /\ GreaterThan(value, fieldSchema.max)
    THEN <<Message(key, "must be at most", "")>> ELSE <<>>

\* lines 105-112: min / max checking
MinMaxErrors(key, fieldSchema, value) ==
    (IF fieldSchema.hasMin /\ LessThan(value, fieldSchema.min)
     THEN <<Message(key, "must be at least", "")>> ELSE <<>>)
    \o (IF fieldSchema.hasMax /\ GreaterThan(value, fieldSchema.max)
        THEN <<Message(key, "must be at most", "")>> ELSE <<>>)

\* the forEach callback without its two return statements: every rule of the
\* field is evaluated
ValidateFieldWithoutReturn(key, fieldSchema, value) ==
    LET early ==
          (IF fieldSchema.required /\ value.k \in {"undefined", "null"}
           THEN <<Message(key, "is required", "")>> ELSE <<>>)
          \o (IF fieldSchema.type # "" /\ TypeOf(value) # fieldSchema.type
              THEN <<Message(key, "must be of type", "")>> ELSE <<>>)
          \o MinMaxErrors(key, fieldSchema, value)
    IN  IF fieldSchema.validator = ""
        THEN [threw |-> FALSE, errors |-> early]
        ELSE IF _validatePowerDraw(value).threw
        THEN [threw |-> TRUE, errors |-> early]
        ELSE [threw |-> FALSE, errors |-> early \o _validatePowerDraw(value).errors]

\* one pass of the forEach callback: the messages the field adds, and whether
\* the callback raised
ValidateField(key, fieldSchema, value) ==
    IF fieldSchema.required /\ value.k \in {"undefined", "null"}
    THEN [threw |-> FALSE, errors |-> <<Message(key, "is required", "")>>]
    ELSE IF fieldSchema.type # "" /\ TypeOf(value) # fieldSchema.type
    THEN [threw |-> FALSE, errors |-> <<Message(key, "must be of type", "")>>]
    ELSE LET range == MinMaxErrors(key, fieldSchema, value)
         IN  IF fieldSchema.validator = ""
             THEN [threw |-> FALSE, errors |-> range]
             ELSE LET customValidation == _validatePowerDraw(value)
                  IN  IF customValidation.threw
                      THEN [threw |-> TRUE, errors |-> range]
                      ELSE [threw |-> FALSE,
                            errors |-> range \o customValidation.errors]

\* the forEach over the schema keys from index i on, errors accumulated so far
RECURSIVE ValidateModuleFrom(_, _, _)
ValidateModuleFrom(spec, i, errors) ==
    IF i > Len(moduleSchemaKeys)
    THEN [threw |-> FALSE, isValid |-> errors = <<>>, errors |-> errors]
    ELSE LET key == moduleSchemaKeys[i]
             field == ValidateField(key, _moduleSchema[key], spec[key])
         IN  IF field.threw
             THEN [threw |-> TRUE, isValid |-> FALSE, errors |-> errors \o field.errors]
             ELSE ValidateModuleFrom(spec, i + 1, errors \o field.errors)

\* threw: the call raised instead of returning {isValid, errors}
_validateModuleSpec(spec) == ValidateModuleFrom(spec, 1, <<>>)

-----------------------------------------------------------------------------
(* ModuleDesignService._normalizeModuleSpec, _calculateVolume, createModule *)

ZeroRails == [rail \in Rails |-> RailNum(0)]

\* width kept in millimetres instead of HP
NormalizeModuleSpecInMm(spec) ==
    [name |-> Str(Trim(spec.name.s)),
     width |-> IF spec.width.k = "number"
               THEN MathRound(Num((spec.width.n * hpUnit) \div 100))
               ELSE NaN,
     height |-> MathRound(spec.height),
     depth |-> MathRound(spec.depth),
     powerDraw |-> IF Truthy(spec.powerDraw)
                   THEN Obj([rail \in Rails |-> RailOrZero(GetRail(spec.powerDraw, rail))])
                   ELSE Obj(ZeroRails),
     controls |-> IF Truthy(spec.controls) THEN spec.controls ELSE Arr(<<>>),
     images |-> IF Truthy(spec.images) THEN spec.images ELSE Arr(<<>>)]

_normalizeModuleSpec(spec) ==
    [name |-> Str(Trim(spec.name.s)),
     width |-> MathRound(spec.width),
     height |-> MathRound(spec.height),
     depth |-> MathRound(spec.depth),
     powerDraw |-> IF Truthy(spec.powerDraw)
                   THEN Obj([rail \in Rails |-> RailOrZero(GetRail(spec.powerDraw, rail))])
                   ELSE Obj(ZeroRails),
     controls |-> IF Truthy(spec.controls) THEN spec.controls ELSE Arr(<<>>),
     images |-> IF Truthy(spec.images) THEN spec.images ELSE Arr(<<>>)]

\* normalizedModule.width * hpUnit, in 1/(Scale * 100) mm
HpWidth(normalized) ==
    IF normalized.width.k = "number" THEN Num(normalized.width.n * hpUnit) ELSE NaN

\* width * hpUnit * height / 10 * depth / 10 in 1/10000 cm3; the dimensions of
\* a normalized module are whole numbers
_calculateVolume(normalized) ==
    IF /\ normalized.width.k = "number"
       /\ normalized.height.k = "number"
       /\ normalized.depth.k = "number"
    THEN Num((normalized.width.n \div Scale) * hpUnit
             * (normalized.height.n \div Scale) * (normalized.depth.n \div Scale))
    ELSE NaN

\* what createModule returns when it returns null
NullModule == [isNull |-> TRUE]

\* derived fields taken from the input when it supplies them
WithDerivedKeepSupplied(spec, normalized) ==
    [isNull |-> FALSE,
     name |-> normalized.name, width |-> normalized.width,
     height |-> normalized.height, depth |-> normalized.depth,
     powerDraw |-> normalized.powerDraw, controls |-> normalized.controls,
     images |-> normalized.images,
     hpWidth |-> IF Truthy(spec.hpWidth) THEN spec.hpWidth ELSE HpWidth(normalized),
     volumeCm3 |-> IF Truthy(spec.volumeCm3) THEN spec.volumeCm3
                   ELSE _calculateVolume(normalized)]

\* lines 62-69: the normalized record with its derived properties
WithDerived(spec, normalized) ==
    [isNull |-> FALSE,
     name |-> normalized.name, width |-> normalized.width,
     height |-> normalized.height, depth |-> normalized.depth,
     powerDraw |-> normalized.powerDraw, controls |-> normalized.controls,
     images |-> normalized.images,
     hpWidth |-> HpWidth(normalized),
     volumeCm3 |-> _calculateVolume(normalized)]

\* a raised TypeError and an invalid result both end in the catch block, which
\* reports to ErrorService and returns null
createModule(spec) ==
    LET result == _validateModuleSpec(spec)
    IN  IF result.threw \/ ~result.isValid
        THEN NullModule
        ELSE WithDerived(spec, _normalizeModuleSpec(spec))

-----------------------------------------------------------------------------
(* The records handed to the module service *)

NameChars == {" ", "a"}
ShortNames == UNION {[1..n -> NameChars] : n \in 0..MaxNameLen}
\* one character more than the schema's maxLength
LongName == [i \in 1..(NameMaxLength + 1) |-> "a"]

NameInputs ==
    {Undefined, Num(7 * Scale)}
    \cup {Str(chars) : chars \in ShortNames} \cup {Str(LongName)}

\* 1, 1.6, 2, 2.5, 42, 42.4 and 43 HP, and the non-numbers
WidthInputs ==
    {Str(<<"4">>), NaN}
    \cup {Num(WidthMin * Scale + d) : d \in {0 - Scale, 0 - 4, 0, 5}}
    \cup {Num(WidthMax * Scale + d) : d \in {0, 4, Scale}}

\* 99.6, 128.5 and 150 mm
HeightInputs ==
    {Null, Num(HeightMin * Scale - 4), Num(1285), Num(HeightMax * Scale)}

\* 25 and 45.5 mm
DepthInputs == {Num(25 * Scale), Num(DepthMax * Scale + 5)}

PowerDrawInputs ==
    {Undefined, Null, Str(<<"a">>)}
    \cup {Obj([rail \in Rails |->
                 CASE rail = "+12V" -> p12
                   [] rail = "-12V" -> rest[1]
                   [] rail = "+5V" -> rest[2]]) :
            p12 \in {RailUndefined, RailStr, RailNum(0 - 1), RailNum(0),
                     RailNum(maxPowerPerRail), RailNum(maxPowerPerRail + 1)},
            rest \in {<<RailUndefined, RailNaN>>, <<RailUndefined, RailNum(250)>>,
                      <<RailNum(maxPowerPerRail), RailNum(250)>>,
                      <<RailNum(maxPowerPerRail + 1), RailNum(250)>>}}

\* a control of the panel layout and an uploaded image
KnobControl == [type |-> "knob", x |-> 50, y |-> 50, label |-> "Knob 1", id |-> 1]
FrontImage == [id |-> 1, name |-> "front.png"]

\* the fields outside the schema: all omitted, or all supplied (with values
\* for the derived fields that are not the derived ones)
ExtraInputs ==
    {[controls |-> Undefined, images |-> Undefined,
      hpWidth |-> Undefined, volumeCm3 |-> Undefined],
     [controls |-> Arr(<<KnobControl>>), images |-> Arr(<<FrontImage>>),
      hpWidth |-> Num(999), volumeCm3 |-> Num(1)]}

ModuleSpecs ==
    {[name |-> n, width |-> w, height |-> h, depth |-> d, powerDraw |-> p,
      controls |-> x.controls, images |-> x.images,
      hpWidth |-> x.hpWidth, volumeCm3 |-> x.volumeCm3] :
        n \in NameInputs, w \in WidthInputs, h \in HeightInputs,
        d \in DepthInputs, p \in PowerDrawInputs, x \in ExtraInputs}

\* records with absent, null and wrongly typed fields, for both validators
RuleModuleSpecs ==
    {[name |-> n, width |-> w, height |-> h, depth |-> Num(25 * Scale),
      powerDraw |-> p, controls |-> Undefined, images |-> Undefined,
      hpWidth |-> Undefined, volumeCm3 |-> Undefined] :
        n \in {Undefined, Num(7 * Scale), Str(<<"a">>)},
        w \in {Undefined, Str(<<"4">>), Num((WidthMin - 1) * Scale)},
        h \in {Null, Num(1285)},
        p \in {Str(<<"a">>), Obj(ZeroRails)}}

\* validationResult before _validateModuleSpec has run
NotValidated == [threw |-> FALSE, isValid |-> FALSE, errors |-> <<>>]

\* the module-service variables while the project service is exercised
ModuleIdle ==
    /\ pc = "idle"
    /\ moduleSpec = [name |-> Undefined, width |-> Undefined, height |-> Undefined,
                     depth |-> Undefined, powerDraw |-> Undefined,
                     controls |-> Undefined, images |-> Undefined,
                     hpWidth |-> Undefined, volumeCm3 |-> Undefined]
    /\ validationResult = NotValidated
    /\ module = NullModule
    /\ module2 = NullModule

-----------------------------------------------------------------------------
(* The module service: validate a record, create the module, create again *)

ValidateModule ==
    /\ pc = "input"
    /\ validationResult' = _validateModuleSpec(moduleSpec)
    /\ pc' = "validated"
    /\ UNCHANGED <<moduleSpec, module, module2, projectVars, generationVars, projectorVars,
                   sessionVars>>

CreateModule ==
    /\ pc = "validated"
    /\ module' = createModule(moduleSpec)
    /\ pc' = "created"
    /\ UNCHANGED <<moduleSpec, validationResult, module2, projectVars, generationVars, projectorVars,
                   sessionVars>>

\* createModule applied to the record createModule returned
CreateModuleAgain ==
    /\ pc = "created"
    /\ ~module.isNull
    /\ module2' = createModule(module)
    /\ pc' = "done"
    /\ UNCHANGED <<moduleSpec, validationResult, module, projectVars, generationVars, projectorVars,
                   sessionVars>>

-----------------------------------------------------------------------------
(* ProjectManagementService: the schema *)

\* The entries of rack and metadata are nested rule sets, so as field schemas
\* they declare no required, type, minLength, maxLength, min, max or validator
\* of their own.
_projectSchema ==
    [name |-> Rules(TRUE, "string", FALSE, 0, FALSE, 0,
                    ProjectNameMinLength, ProjectNameMaxLength, ""),
     description |-> Rules(FALSE, "string", FALSE, 0, FALSE, 0,
                           0, DescriptionMaxLength, ""),
     modules |-> Rules(TRUE, "array", FALSE, 0, FALSE, 0, 1, 0, ""),
     rack |-> Rules(FALSE, "", FALSE, 0, FALSE, 0, 0, 0, ""),
     metadata |-> Rules(FALSE, "", FALSE, 0, FALSE, 0, 0, 0, "")]

\* Object.keys(this._projectSchema), in insertion order
projectSchemaKeys == <<"name", "description", "modules", "rack", "metadata">>

\* value.length of a string or an array
LengthOf(value) == IF value.k = "string" THEN Len(value.s) ELSE Len(value.a)

-----------------------------------------------------------------------------
(* ProjectManagementService._validateProjectSpec *)

\* lines 150-157: one message per element createModule rejects
RECURSIVE InvalidModuleErrors(_, _)
InvalidModuleErrors(modules, index) ==
    IF index > Len(modules)
    THEN <<>>
    ELSE (IF createModule(modules[index]).isNull
          THEN <<Message("modules", "Invalid module at index", "")
                   @@ [index |-> index - 1]>>
          ELSE <<>>)
         \o InvalidModuleErrors(modules, index + 1)

\* the messages one pass of the forEach callback adds for a field
ValidateProjectField(key, fieldSchema, value) ==
    IF fieldSchema.required /\ value.k \in {"undefined", "null"}
    THEN <<Message(key, "is required", "")>>
    ELSE IF value.k = "undefined"
    THEN <<>>
    ELSE IF fieldSchema.type # "" /\ TypeOf(value) # fieldSchema.type
    THEN <<Message(key, "must be of type", "")>>
    ELSE (IF fieldSchema.minLength # 0 /\ LengthOf(value) < fieldSchema.minLength
          THEN <<Message(key, "must be at least characters", "")>> ELSE <<>>)
         \o (IF fieldSchema.maxLength # 0 /\ LengthOf(value) > fieldSchema.maxLength
             THEN <<Message(key, "must be at most characters", "")>> ELSE <<>>)
         \o MinMaxErrors(key, fieldSchema, value)
         \o (IF key = "modules" THEN InvalidModuleErrors(value.a, 1) ELSE <<>>)

RECURSIVE ValidateProjectFrom(_, _, _)
ValidateProjectFrom(spec, i, errors) ==
    IF i > Len(projectSchemaKeys)
    THEN [isValid |-> errors = <<>>, errors |-> errors]
    ELSE LET key == projectSchemaKeys[i]
         IN  ValidateProjectFrom(spec, i + 1,
                 errors \o ValidateProjectField(key, _projectSchema[key], spec[key]))

_validateProjectSpec(spec) == ValidateProjectFrom(spec, 1, <<>>)

-----------------------------------------------------------------------------
(* ProjectManagementService._normalizeProjectSpec, _generateProjectId,      *)
(* createProject, _saveProject                                              *)

\* what createProject returns when it returns null
NullProject == [isNull |-> TRUE]

\* projectSpec.rack.width and projectSpec.rack.powerSupply[rail] can be read
NormalizeThrows(spec) ==
    \/ ~CanReadProperty(spec.rack)
    \/ ~CanReadProperty(spec.rack.powerSupply)

_normalizeProjectSpec(spec, instant) ==
    [isNull |-> FALSE,
     name |-> Str(Trim(spec.name.s)),
     description |-> IF Truthy(spec.description)
                     THEN Str(Trim(spec.description.s)) ELSE Str(<<>>),
     modules |-> Arr([i \in 1..Len(spec.modules.a) |-> createModule(spec.modules.a[i])]),
     rack |-> [k |-> "object",
               width |-> MathRound(spec.rack.width),
               powerSupply |-> Obj([rail \in Rails |->
                                      GetRail(spec.rack.powerSupply, rail)])],
     metadata |-> [k |-> "object", createdAt |-> instant, updatedAt |-> instant,
                   version |-> 1]]

\* prj_<Date.now() in base 36>_<random suffix>
_generateProjectId(instant, random) == <<"prj", instant, random>>

\* the record createProject returns: null when validation fails or a step
\* raises, the normalized project with its id otherwise
createProject(spec, instant, random) ==
    IF ~_validateProjectSpec(spec).isValid \/ NormalizeThrows(spec)
    THEN NullProject
    ELSE _normalizeProjectSpec(spec, instant)
         @@ [id |-> _generateProjectId(instant, random)]

\* JSON.parse(JSON.stringify(value)) of a number-valued field: NaN comes back
\* as null
JsonValue(v) == IF v.k = "NaN" THEN Null ELSE v
JsonModule(m) ==
    IF m.isNull THEN m
    ELSE [m EXCEPT !.width = JsonValue(@), !.height = JsonValue(@),
                   !.depth = JsonValue(@), !.hpWidth = JsonValue(@),
                   !.volumeCm3 = JsonValue(@)]
JsonProject(p) ==
    [p EXCEPT !.modules = Arr([i \in 1..Len(@.a) |-> JsonModule(@.a[i])]),
              !.rack = [@ EXCEPT !.width = JsonValue(@)]]

\* _saveProject: the stored list with the project replaced or appended
SavedProjects(stored, p) ==
    IF \E i \in 1..Len(stored) : stored[i].id = p.id
    THEN [i \in 1..Len(stored) |->
            IF stored[i].id = p.id THEN JsonProject(p) ELSE stored[i]]
    ELSE Append(stored, JsonProject(p))

\* this._projectCache.set(project.id, project)
CacheSet(cache, p) ==
    [id \in DOMAIN cache \cup {p.id} |-> IF id = p.id THEN p ELSE cache[id]]

-----------------------------------------------------------------------------
(* ProjectManagementService.getProjectById, updateProject *)

\* this._projectCache.has(projectId)
CacheHas(cache, id) == id \in DOMAIN cache

\* projects.find(p => p.id === projectId): the first match, null without one
FindProject(stored, id) ==
    IF \E i \in 1..Len(stored) : stored[i].id = id
    THEN stored[CHOOSE i \in 1..Len(stored) :
                   /\ stored[i].id = id
                   /\ \A j \in 1..(i - 1) : stored[j].id # id]
    ELSE NullProject

\* the cached project when there is one, the stored one otherwise
getProjectById(cache, stored, id) ==
    IF CacheHas(cache, id) THEN cache[id] ELSE FindProject(stored, id)

\* getProjectById caches a project it had to fetch from the store
CacheAfterGet(cache, stored, id) ==
    IF ~CacheHas(cache, id) /\ ~FindProject(stored, id).isNull
    THEN CacheSet(cache, FindProject(stored, id))
    ELSE cache

\* projects.filter(p => p.id !== projectId)
FilteredProjects(stored, id) == SelectSeq(stored, LAMBDA p : p.id # id)

\* deleteProject that leaves the cache as it is
CacheKeep(cache, id) == cache

\* this._projectCache.delete(projectId)
CacheDelete(cache, id) == [i \in (DOMAIN cache) \ {id} |-> cache[i]]

\* what validateRackUtilization returns when the project is not found or a
\* step raises: null
NullUtilization == [isNull |-> TRUE]

RECURSIVE SumWidths(_)
\* project.modules.reduce((sum, module) => sum + module.width, 0), in 1/Scale HP
SumWidths(list) ==
    IF list = <<>> THEN 0 ELSE Head(list).width.n + SumWidths(Tail(list))

\* validateRackUtilization(projectId) of the project getProjectById returned.
\* rackWidthHP = project.rack.width / 5.08 is kept as the fraction
\* rackWidth.num / rackWidth.den, and so is remainingHP; totalHP is in 1/Scale HP
validateRackUtilization(p) ==
    IF p.isNull THEN NullUtilization
    ELSE LET totalHP == SumWidths(p.modules.a)
             rackWidthHP == [num |-> p.rack.width.n * 100, den |-> hpUnit * Scale]
         IN  [isNull |-> FALSE,
              totalHP |-> totalHP,
              rackWidthHP |-> rackWidthHP,
              utilizationPercentage |->
                  (2 * 100 * totalHP * rackWidthHP.den + Scale * rackWidthHP.num)
                      \div (2 * Scale * rackWidthHP.num),
              isOverUtilized |->
                  100 * totalHP * rackWidthHP.den > 100 * Scale * rackWidthHP.num,
              remainingHP |->
                  [num |-> IF rackWidthHP.num * Scale > totalHP * rackWidthHP.den
                           THEN rackWidthHP.num * Scale - totalHP * rackWidthHP.den
                           ELSE 0,
                   den |-> rackWidthHP.den * Scale]]

\* {...project, ...updates}: an own key of updates replaces the project's
OwnOr(upd, key, old) == IF key \in upd.has THEN upd[key] ELSE old

\* project.metadata.version || 0
OrZero(n) == IF n # 0 THEN n ELSE 0

\* lines 335-343: the merged record
MergeUpdates(p, upd, instant) ==
    [p EXCEPT !.name = OwnOr(upd, "name", @),
              !.description = OwnOr(upd, "description", @),
              !.modules = OwnOr(upd, "modules", @),
              !.rack = OwnOr(upd, "rack", @),
              !.metadata = [@ EXCEPT !.updatedAt = instant,
                                     !.version = OrZero(@) + 1]]

\* the record updateProject returns for the project getProjectById found:
\* null when there is none or the merged record fails validation
updateProject(p, upd, instant) ==
    IF p.isNull
    THEN NullProject
    ELSE IF ~_validateProjectSpec(MergeUpdates(p, upd, instant)).isValid
    THEN NullProject
    ELSE MergeUpdates(p, upd, instant)

-----------------------------------------------------------------------------
(* The records handed to the project service *)

ValidModuleSpec ==
    [name |-> Str(<<"a">>), width |-> Num(4 * Scale), height |-> Num(1285),
     depth |-> Num(25 * Scale),
     powerDraw |-> Obj([rail \in Rails |-> RailNum(50)]),
     controls |-> Undefined, images |-> Undefined,
     hpWidth |-> Undefined, volumeCm3 |-> Undefined]
WideModuleSpec == [ValidModuleSpec EXCEPT !.width = Num((WidthMax + 1) * Scale)]

LongProjectName == [i \in 1..(ProjectNameMaxLength + 1) |-> "a"]
ProjectNameInputs ==
    {Str(<<>>), Str(<<" ", "a", " ">>),
     Str([i \in 1..ProjectNameMaxLength |-> "a"]), Str(LongProjectName)}
DescriptionInputs == {Undefined, Str(<<"d">>)}
ModulesInputs ==
    {Undefined, Arr(<<>>), Arr(<<ValidModuleSpec>>),
     Arr(<<ValidModuleSpec, WideModuleSpec>>)}

Rack(width, powerSupply) == [k |-> "object", width |-> width, powerSupply |-> powerSupply]
NoRack == [k |-> "undefined", width |-> Undefined, powerSupply |-> Undefined]
RackInputs ==
    {NoRack}
    \cup {Rack(Num(w * Scale), Obj([rail \in Rails |-> RailNum(1000)])) :
            w \in {RackWidthMin - 1, 104}}
    \cup {Rack(Num(RackWidthMax * Scale), Obj([rail \in Rails |->
              IF rail = "+5V" THEN RailUndefined ELSE RailNum(maxCurrentPerRail)]))}

ProjectSpecs ==
    {[name |-> n, description |-> d, modules |-> m, rack |-> r,
      metadata |-> Undefined] :
        n \in ProjectNameInputs, d \in DescriptionInputs,
        m \in ModulesInputs, r \in RackInputs}

\* records with absent, null and wrongly typed fields
RuleProjectSpecs ==
    {[name |-> n, description |-> d, modules |-> m,
      rack |-> Rack(Num(104 * Scale), Obj([rail \in Rails |-> RailNum(1000)])),
      metadata |-> Undefined] :
        n \in {Undefined, Num(1), Str(<<"a">>)},
        d \in {Num(1), Str(<<"d">>)},
        m \in {Null, Str(<<>>), Arr(<<WideModuleSpec>>)}}

\* localStorage outlives the page: the list _getProjects finds at start-up is
\* empty, or holds a project an earlier session left there
GoodRack == Rack(Num(104 * Scale), Obj([rail \in Rails |-> RailNum(1000)]))
NarrowRack ==
    Rack(Num((RackWidthMin - 1) * Scale), Obj([rail \in Rails |-> RailNum(1000)]))
OverloadedRack ==
    Rack(Num(RackWidthMax * Scale),
         Obj([rail \in Rails |->
                IF rail = "+5V" THEN RailNum(maxCurrentPerRail + 1) ELSE RailNum(0)]))
PersistedSpec ==
    [name |-> Str(<<"a">>), description |-> Undefined,
     modules |-> Arr(<<ValidModuleSpec>>), rack |-> GoodRack,
     metadata |-> Undefined]
PersistedProject ==
    JsonProject(_normalizeProjectSpec(PersistedSpec, 0)
                @@ [id |-> _generateProjectId(0, 1)])
PersistedStores == {<<>>, <<PersistedProject>>}

\* the records handed to createProject next to a persisted store
StoreProjectSpecs ==
    {PersistedSpec,
     [PersistedSpec EXCEPT !.rack = NarrowRack],
     [PersistedSpec EXCEPT !.rack = OverloadedRack],
     [PersistedSpec EXCEPT !.modules = Undefined]}

\* the ids handed to updateProject: the persisted project's and an unknown one
ProjectIds == {_generateProjectId(0, 1), _generateProjectId(0, 2)}

\* updates objects; has is the set of their own keys
NoUpdates ==
    [has |-> {}, name |-> Undefined, description |-> Undefined,
     modules |-> Undefined, rack |-> NoRack]
UpdatesInputs ==
    {NoUpdates,
     [NoUpdates EXCEPT !.has = {"name"}, !.name = Str(<<"b">>)],
     [NoUpdates EXCEPT !.has = {"name"}, !.name = Str(<<>>)],
     [NoUpdates EXCEPT !.has = {"description"}, !.description = Str(<<"d">>)],
     [NoUpdates EXCEPT !.has = {"modules"},
                       !.modules = Arr(<<ValidModuleSpec, ValidModuleSpec>>)],
     [NoUpdates EXCEPT !.has = {"rack"}, !.rack = NarrowRack],
     [NoUpdates EXCEPT !.has = {"rack"}, !.rack = OverloadedRack],
     [has |-> {"name", "description", "modules", "rack"},
      name |-> Str(<<"a">>), description |-> Str(<<>>),
      modules |-> Arr(<<ValidModuleSpec>>), rack |-> GoodRack]}

\* the project-service variables after construction, the store apart
ProjectIdle ==
    /\ lastCall = "none"
    /\ projectSpec = [name |-> Undefined, description |-> Undefined,
                      modules |-> Undefined, rack |-> NoRack, metadata |-> Undefined]
    /\ project = NullProject
    /\ projectId = _generateProjectId(0, 2)
    /\ updates = NoUpdates
    /\ found = NullProject
    /\ projectValidation = [isValid |-> FALSE, errors |-> <<>>]
    /\ _projectCache = <<>>
    /\ now = 1

\* the project-service variables after construction, nothing persisted
ProjectInit ==
    /\ ProjectIdle
    /\ localStorage = <<>>

-----------------------------------------------------------------------------
(* The project service *)

\* createProject(spec): validate, normalize, assign an id, save
CreateProjectOf(specs) ==
    \E spec \in specs, random \in 1..MaxRandom :
        LET created == createProject(spec, now, random)
        IN  /\ lastCall' = "createProject"
            /\ projectSpec' = spec
            /\ project' = created
            /\ projectValidation' = _validateProjectSpec(spec)
            /\ IF created.isNull
               THEN UNCHANGED <<localStorage, _projectCache>>
               ELSE /\ localStorage' = SavedProjects(localStorage, created)
                    /\ _projectCache' = CacheSet(_projectCache, created)
            /\ UNCHANGED <<projectId, updates, found, now, moduleVars, generationVars, projectorVars,
                   sessionVars>>

CreateProject == CreateProjectOf(ProjectSpecs)

\* createProject on the records of RuleProjectSpecs
CreateRuleProject == CreateProjectOf(RuleProjectSpecs)

\* createProject next to a persisted store
CreateProjectInStore == CreateProjectOf(StoreProjectSpecs)

\* updateProject(projectId, updates): fetch, merge, validate, save
UpdateProject ==
    \E id \in ProjectIds, upd \in UpdatesInputs :
        LET got == getProjectById(_projectCache, localStorage, id)
            fetched == CacheAfterGet(_projectCache, localStorage, id)
            updated == updateProject(got, upd, now)
        IN  /\ lastCall' = "updateProject"
            /\ projectId' = id
            /\ updates' = upd
            /\ found' = got
            /\ project' = updated
            /\ projectValidation' =
                  (IF got.isNull THEN projectValidation
                   ELSE _validateProjectSpec(MergeUpdates(got, upd, now)))
            /\ IF updated.isNull
               THEN /\ localStorage' = localStorage
                    /\ _projectCache' = fetched
               ELSE /\ localStorage' = SavedProjects(localStorage, updated)
                    /\ _projectCache' = CacheSet(fetched, updated)
            /\ UNCHANGED <<projectSpec, now, moduleVars, generationVars, projectorVars,
                   sessionVars>>

\* getProjectById(projectId), called on its own
GetProjectById ==
    \E id \in ProjectIds :
        /\ lastCall' = "getProjectById"
        /\ projectId' = id
        /\ found' = getProjectById(_projectCache, localStorage, id)
        /\ _projectCache' = CacheAfterGet(_projectCache, localStorage, id)
        /\ UNCHANGED <<projectSpec, project, updates, projectValidation,
                       localStorage, now, currentProject, moduleVars,
                       generationVars, projectorVars, panelVars, progressVars,
                       utilization>>

\* deleteProject(projectId)
DeleteProject ==
    \E id \in ProjectIds :
        /\ lastCall' = "deleteProject"
        /\ projectId' = id
        /\ localStorage' = FilteredProjects(localStorage, id)
        /\ _projectCache' = CacheDelete(_projectCache, id)
        /\ UNCHANGED <<projectSpec, project, updates, found, projectValidation,
                       now, currentProject, moduleVars, generationVars,
                       projectorVars, panelVars, progressVars,
                       utilization>>

\* the record _handleGeneratedModel hands to createProject
GeneratedProjectSpec ==
    [name |-> Str(<<"A", "I", " ", "G", "e", "n", "e", "r", "a", "t", "e", "d",
                    " ", "P", "r", "o", "j", "e", "c", "t">>),
     description |-> Str(<<"C">>),
     modules |-> Arr(<<>>),
     rack |-> Rack(Num(104 * Scale), Obj(ZeroRails)),
     metadata |-> Undefined]

\* the record _handleGeneratedModel hands to createModule for a generated
\* model of 20.32 x 128.5 x 25 mm: no powerDraw
GeneratedModuleSpec ==
    [name |-> Str(<<"a">>), width |-> Num(4 * Scale), height |-> Num(1285),
     depth |-> Num(25 * Scale), powerDraw |-> Undefined, controls |-> Undefined,
     images |-> Undefined, hpWidth |-> Undefined, volumeCm3 |-> Undefined]

\* createModule of that record: null
GeneratedModule == createModule(GeneratedModuleSpec)

\* this._state.currentProject.modules.push(module)
Pushed(p, m) == [p EXCEPT !.modules = Arr(Append(@.a, m))]

\* the project handed to updateProject as its updates
UpdatesOf(p) ==
    [has |-> {"name", "description", "modules", "rack"},
     name |-> p.name, description |-> p.description,
     modules |-> p.modules, rack |-> p.rack]

\* AppController._handleGeneratedModel(generatedModel): without a current
\* project it asks createProject for one; the push raises when there is still
\* none, and otherwise writes into the project the cache holds, before
\* updateProject is asked to store it
HandleGeneratedModel ==
    \E random \in 1..MaxRandom :
    \E current \in {IF currentProject.isNull
                    THEN createProject(GeneratedProjectSpec, now, random)
                    ELSE currentProject} :
        IF current.isNull
        THEN /\ lastCall' = "createProject"
             /\ projectSpec' = GeneratedProjectSpec
             /\ project' = current
             /\ projectValidation' = _validateProjectSpec(GeneratedProjectSpec)
             /\ UNCHANGED <<projectId, updates, found, localStorage,
                            _projectCache, now, currentProject, moduleVars,
                            generationVars, projectorVars, panelVars,
                            progressVars,
                            utilization>>
        ELSE \E pushed \in {Pushed(current, GeneratedModule)} :
             \E updated \in {updateProject(pushed, UpdatesOf(pushed), now)} :
             \E stored \in {IF currentProject.isNull
                            THEN SavedProjects(localStorage, current)
                            ELSE localStorage} :
                 /\ lastCall' = "updateProject"
                 /\ currentProject' = pushed
                 /\ projectId' = pushed.id
                 /\ updates' = UpdatesOf(pushed)
                 /\ found' = pushed
                 /\ project' = updated
                 /\ projectValidation' =
                       _validateProjectSpec(MergeUpdates(pushed, UpdatesOf(pushed), now))
                 /\ localStorage' =
                       (IF updated.isNull THEN stored
                        ELSE SavedProjects(stored, updated))
                 /\ _projectCache' =
                       (IF updated.isNull THEN CacheSet(_projectCache, pushed)
                        ELSE CacheSet(_projectCache, updated))
                 /\ UNCHANGED <<projectSpec, now, moduleVars, generationVars,
                                projectorVars, panelVars, progressVars,
                                utilization>>

\* time passes between two calls
Tick ==
    /\ now < MaxClock
    /\ now' = now + 1
    /\ UNCHANGED <<lastCall, projectSpec, project, projectId, updates, found,
                   projectValidation, localStorage, _projectCache, moduleVars, generationVars, projectorVars,
                   sessionVars>>

-----------------------------------------------------------------------------
(* AIGenerationService: _modelSchema, _validateInputType,                   *)
(* _validateGenerationSpec                                                  *)

\* a string held as one token, for fields whose text is compared whole and
\* whose length is never read
Word(w) == Str(<<w>>)

\* a field schema of _modelSchema; allowedValues = {} and a length of 0 stand
\* for a rule the schema does not declare
GenerationRules(required, type, allowedValues, minLength, maxLength, validator) ==
    [required |-> required, type |-> type, allowedValues |-> allowedValues,
     minLength |-> minLength, maxLength |-> maxLength, validator |-> validator]

\* the entry for dimensions is a nested rule set: it declares no required,
\* type, allowedValues, length or validator of its own
_modelSchema ==
    [inputType |-> GenerationRules(TRUE, "", {}, 0, 0, "_validateInputType"),
     dimensions |-> GenerationRules(FALSE, "", {}, 0, 0, ""),
     images |-> GenerationRules(TRUE, "array", {}, ImagesMinLength, ImagesMaxLength, ""),
     qualityPreset |-> GenerationRules(FALSE, "string",
                                       {Word("draft"), Word("standard"), Word("high")},
                                       0, 0, "")]

\* Object.keys(this._modelSchema), in insertion order
modelSchemaKeys == <<"inputType", "dimensions", "images", "qualityPreset">>

supportedTypes == {Word("image"), Word("3d_sketch"), Word("dimensions")}

_validateInputType(inputType) ==
    IF inputType \in supportedTypes
    THEN <<>>
    ELSE <<Message("inputType", "Invalid input type", "")>>

\* the dimension names of lines 753-769
dimensionKeys == <<"width", "height", "depth">>

\* lines 754-768 for one dimension
DimensionErrors(value, dim) ==
    IF value[dim].k = "undefined"
    THEN <<Message(dim, "Dimension is required", "")>>
    ELSE (IF LessThan(value[dim], GenerationDimMin * Scale)
          THEN <<Message(dim, "must be at least", "")>> ELSE <<>>)
         \o (IF GreaterThan(value[dim], GenerationDimMax * Scale)
             THEN <<Message(dim, "must be at most", "")>> ELSE <<>>)

\* lines 773-782: processFile is async, so the call hands back a promise and
\* never raises into the surrounding try; no image adds a message
ImageErrors(images) == <<>>

\* one pass of the forEach callback: the messages the field adds, and whether
\* the callback raised (value[dim] of null)
ValidateGenerationField(key, fieldSchema, value) ==
    IF fieldSchema.required /\ value.k \in {"undefined", "null"}
    THEN [threw |-> FALSE, errors |-> <<Message(key, "is required", "")>>]
    ELSE IF value.k = "undefined"
    THEN [threw |-> FALSE, errors |-> <<>>]
    ELSE IF fieldSchema.type # "" /\ TypeOf(value) # fieldSchema.type
    THEN [threw |-> FALSE, errors |-> <<Message(key, "must be of type", "")>>]
    ELSE LET flat ==
               (IF fieldSchema.allowedValues # {} /\ value \notin fieldSchema.allowedValues
                THEN <<Message(key, "must be one of", "")>> ELSE <<>>)
               \o (IF fieldSchema.minLength # 0 /\ LengthOf(value) < fieldSchema.minLength
                   THEN <<Message(key, "must have at least items", "")>> ELSE <<>>)
               \o (IF fieldSchema.maxLength # 0 /\ LengthOf(value) > fieldSchema.maxLength
                   THEN <<Message(key, "must have at most items", "")>> ELSE <<>>)
               \o (IF fieldSchema.validator # "" THEN _validateInputType(value) ELSE <<>>)
         IN  IF key = "dimensions" /\ ~CanReadProperty(value)
             THEN [threw |-> TRUE, errors |-> flat]
             ELSE [threw |-> FALSE,
                   errors |-> flat
                     \o (IF key = "dimensions"
                         THEN DimensionErrors(value, "width")
                              \o DimensionErrors(value, "height")
                              \o DimensionErrors(value, "depth")
                         ELSE <<>>)
                     \o (IF key = "images" THEN ImageErrors(value.a) ELSE <<>>)]

\* the forEach over the schema keys from index i on
RECURSIVE ValidateGenerationFrom(_, _, _)
ValidateGenerationFrom(spec, i, errors) ==
    IF i > Len(modelSchemaKeys)
    THEN [ran |-> TRUE, threw |-> FALSE, isValid |-> errors = <<>>, errors |-> errors]
    ELSE LET key == modelSchemaKeys[i]
             field == ValidateGenerationField(key, _modelSchema[key], spec[key])
         IN  IF field.threw
             THEN [ran |-> TRUE, threw |-> TRUE, isValid |-> FALSE,
                   errors |-> errors \o field.errors]
             ELSE ValidateGenerationFrom(spec, i + 1, errors \o field.errors)

_validateGenerationSpec(spec) == ValidateGenerationFrom(spec, 1, <<>>)

-----------------------------------------------------------------------------
(* The records handed to the generation service *)

Dimensions(width, height, depth) ==
    [k |-> "object", width |-> width, height |-> height, depth |-> depth]
NoDimensions ==
    [k |-> "undefined", width |-> Undefined, height |-> Undefined, depth |-> Undefined]
NullDimensions ==
    [k |-> "null", width |-> Undefined, height |-> Undefined, depth |-> Undefined]

InputTypeInputs ==
    {Undefined, Word("image"), Word("3d_sketch"), Word("dimensions"), Word("photo")}
DimensionInputs ==
    {Undefined, NaN, Num(GenerationDimMin * Scale - 1), Num(GenerationDimMin * Scale),
     Num(GenerationDimMax * Scale), Num(GenerationDimMax * Scale + 1)}
DimensionsInputs ==
    {NoDimensions, NullDimensions}
    \cup {Dimensions(w, Num(GenerationDimMin * Scale), d) :
            w \in DimensionInputs, d \in DimensionInputs}
    \cup {Dimensions(Num(GenerationDimMax * Scale), h, Num(GenerationDimMax * Scale)) :
            h \in DimensionInputs}
ImagesInputs ==
    {Undefined, Str(<<"a">>)}
    \cup {Arr([i \in 1..n |-> FrontImage]) :
            n \in {0, ImagesMinLength, ImagesMaxLength, ImagesMaxLength + 1}}
QualityPresetInputs ==
    {Undefined, Word("draft"), Word("standard"), Word("high"), Word("ultra"), Num(1)}

GenerationSpecs ==
    {[inputType |-> t, dimensions |-> d, images |-> i, qualityPreset |-> q] :
        t \in InputTypeInputs, d \in DimensionsInputs,
        i \in ImagesInputs, q \in QualityPresetInputs}

\* generationResult before _validateGenerationSpec has run
NotValidatedGeneration ==
    [ran |-> FALSE, threw |-> FALSE, isValid |-> FALSE, errors |-> <<>>]

\* the generation-service variables while another service is exercised
GenerationIdle ==
    /\ generationSpec = [inputType |-> Undefined, dimensions |-> NoDimensions,
                         images |-> Undefined, qualityPreset |-> Undefined]
    /\ generationResult = NotValidatedGeneration

\* _validateGenerationSpec(generationSpec)
ValidateGeneration ==
    /\ ~generationResult.ran
    /\ generationResult' = _validateGenerationSpec(generationSpec)
    /\ UNCHANGED <<generationSpec, moduleVars, projectVars, projectorVars,
                   sessionVars>>

-----------------------------------------------------------------------------
(* JavaScript arithmetic on lengths.  A length or a coordinate is a number   *)
(* counted in 1/Fine mm, or NaN.                                             *)

Fine == 100 * 100

\* p * a, the division by 100 left out
PercentOfUndivided(p, a) == IF a.k = "number" THEN Num(p * a.n) ELSE NaN

\* a + b, a - b, a / 2 and p / 100 * a: NaN in, NaN out
Plus(a, b) == IF a.k = "number" /\ b.k = "number" THEN Num(a.n + b.n) ELSE NaN
Minus(a, b) == IF a.k = "number" /\ b.k = "number" THEN Num(a.n - b.n) ELSE NaN
Half(a) == IF a.k = "number" THEN Num(a.n \div 2) ELSE NaN
PercentOf(p, a) == IF a.k = "number" THEN Num((p * a.n) \div 100) ELSE NaN

\* a literal of n tenths of a millimetre (2 is Tenths(20), 1.6 is Tenths(16))
Tenths(n) == Num(n * (Fine \div Scale))
\* a dimension the module record holds in millimetres
Mm(v) == IF v.k = "number" THEN Tenths(v.n) ELSE NaN
\* width * hpUnit
WidthMm(width) ==
    IF width.k = "number"
    THEN Num(width.n * hpUnit * (Fine \div (Scale * 100)))
    ELSE NaN

-----------------------------------------------------------------------------
(* THREE.js objects: geometries, meshes, groups.  Materials are left out.    *)

BoxGeometry(width, height, depth) ==
    [shape |-> "Box", size |-> <<width, height, depth>>]
CylinderGeometry(radiusTop, radiusBottom, height, radialSegments) ==
    [shape |-> "Cylinder",
     size |-> <<radiusTop, radiusBottom, height, Num(radialSegments)>>]

\* new THREE.Mesh(geometry, material) sits at the origin
Mesh(geometry) ==
    [geometry |-> geometry, position |-> [x |-> Num(0), y |-> Num(0), z |-> Num(0)]]
\* mesh.position.set(x, y, z)
PositionSet(mesh, x, y, z) == [mesh EXCEPT !.position = [x |-> x, y |-> y, z |-> z]]

\* no group: null
NullGroup == [isNull |-> TRUE]
Group(children) == [isNull |-> FALSE, children |-> children]

-----------------------------------------------------------------------------
(* ModuleDesignService.create3DModel, _addControlTo3DModel *)

\* the children of moduleGroup after _addControlTo3DModel, which places an
\* unrecognised control like a switch
AddControlTo3DModelAnyType(children, control, mod) ==
    LET width == WidthMm(mod.width)
        height == Mm(mod.height)
        x == Minus(PercentOf(control.x, width), Half(width))
        y == Minus(Half(height), PercentOf(control.y, height))
        z == Plus(Half(Mm(mod.depth)), Tenths(10))
    IN  CASE control.type = "knob" ->
               Append(children,
                      PositionSet(Mesh(CylinderGeometry(Tenths(40), Tenths(40),
                                                        Tenths(60), 16)), x, y, z))
          [] control.type = "jack" ->
               Append(children,
                      PositionSet(Mesh(CylinderGeometry(Tenths(30), Tenths(30),
                                                        Tenths(80), 16)), x, y, z))
          [] OTHER ->
               Append(children,
                      PositionSet(Mesh(BoxGeometry(Tenths(60), Tenths(120),
                                                   Tenths(40))), x, y, z))

\* the children of moduleGroup after _addControlTo3DModel(moduleGroup,
\* control, module)
_addControlTo3DModel(children, control, mod) ==
    LET width == WidthMm(mod.width)
        height == Mm(mod.height)
        x == Minus(PercentOf(control.x, width), Half(width))
        y == Minus(Half(height), PercentOf(control.y, height))
        z == Plus(Half(Mm(mod.depth)), Tenths(10))
    IN  CASE control.type = "knob" ->
               Append(children,
                      PositionSet(Mesh(CylinderGeometry(Tenths(40), Tenths(40),
                                                        Tenths(60), 16)), x, y, z))
          [] control.type = "jack" ->
               Append(children,
                      PositionSet(Mesh(CylinderGeometry(Tenths(30), Tenths(30),
                                                        Tenths(80), 16)), x, y, z))
          [] control.type = "switch" ->
               Append(children,
                      PositionSet(Mesh(BoxGeometry(Tenths(60), Tenths(120),
                                                   Tenths(40))), x, y, z))
          [] OTHER -> children

\* module.controls.forEach from index i on
RECURSIVE AddControlsTo3DModel(_, _, _, _)
AddControlsTo3DModel(children, list, i, mod) ==
    IF i > Len(list)
    THEN children
    ELSE AddControlsTo3DModel(_addControlTo3DModel(children, list[i], mod),
                              list, i + 1, mod)

\* the group create3DModel builds for the record createModule returned, null
\* when createModule returned null
create3DModel(mod) ==
    IF mod.isNull
    THEN NullGroup
    ELSE Group(AddControlsTo3DModel(
                 <<Mesh(BoxGeometry(WidthMm(mod.width), Mm(mod.height),
                                    Tenths(20)))>>,
                 mod.controls.a, 1, mod))

-----------------------------------------------------------------------------
(* The editor: createModuleModel, addControlToModel, exportModel *)

\* the children of currentModel after addControlToModel(control, widthMm,
\* heightMm)
addControlToModel(children, control, widthMm, heightMm, depth) ==
    LET x == Minus(PercentOf(control.x, widthMm), Half(widthMm))
        y == Minus(Half(heightMm), PercentOf(control.y, heightMm))
        z == Plus(Half(Mm(depth)), Tenths(10))
    IN  CASE control.type = "knob" ->
               Append(children,
                      PositionSet(Mesh(CylinderGeometry(Tenths(40), Tenths(40),
                                                        Tenths(60), 16)), x, y, z))
          [] control.type = "jack" ->
               Append(children,
                      PositionSet(Mesh(CylinderGeometry(Tenths(30), Tenths(30),
                                                        Tenths(80), 16)), x, y, z))
          [] control.type = "switch" ->
               Append(children,
                      PositionSet(Mesh(BoxGeometry(Tenths(60), Tenths(120),
                                                   Tenths(40))), x, y, z))
          [] OTHER -> children

\* this.controls.forEach from index i on
RECURSIVE AddControlsToModel(_, _, _, _, _, _)
AddControlsToModel(children, list, i, widthMm, heightMm, depth) ==
    IF i > Len(list)
    THEN children
    ELSE AddControlsToModel(addControlToModel(children, list[i], widthMm, heightMm, depth),
                            list, i + 1, widthMm, heightMm, depth)

\* the three boxes of lines 740-761: panel, PCB, housing
ModuleBoxes(widthMm, heightMm, depthMm) ==
    <<PositionSet(Mesh(BoxGeometry(widthMm, heightMm, Tenths(20))),
                  Num(0), Num(0), Minus(Half(depthMm), Tenths(10))),
      PositionSet(Mesh(BoxGeometry(Minus(widthMm, Tenths(40)),
                                   Minus(heightMm, Tenths(100)), Tenths(16))),
                  Num(0), Num(0), Minus(Half(depthMm), Tenths(100))),
      Mesh(BoxGeometry(widthMm, heightMm, depthMm))>>

\* a createModuleModel that adds to the group it finds instead of a new one
CreateModuleModelKeepingGroup(existing, mod, list) ==
    Group((IF existing.isNull THEN <<>> ELSE existing.children)
          \o AddControlsToModel(
                ModuleBoxes(WidthMm(mod.width), Mm(mod.height), Mm(mod.depth)),
                list, 1, WidthMm(mod.width), Mm(mod.height), mod.depth))

\* the group createModuleModel leaves in this.currentModel; the group it
\* finds there is removed from the scene and dropped
createModuleModel(existing, mod, list) ==
    Group(AddControlsToModel(
            ModuleBoxes(WidthMm(mod.width), Mm(mod.height), Mm(mod.depth)),
            list, 1, WidthMm(mod.width), Mm(mod.height), mod.depth))

\* this.currentModule.name || 'module'
NameOrModule(name) == IF Truthy(name) THEN name ELSE Word("mod")

\* the text of generateSTLData, with the template's fixed lines as tokens
generateSTLData(mod) ==
    <<"solid", NameOrModule(mod.name),
      "vertex", WidthMm(mod.width),
      "vertex", WidthMm(mod.width), mod.height,
      "vertex", WidthMm(mod.width), mod.height,
      "vertex", mod.height,
      "endsolid", NameOrModule(mod.name)>>

\* the text of generateOBJData
generateOBJData(mod) ==
    <<"# Eurorack Module:", mod.name,
      "# Dimensions:", mod.width, WidthMm(mod.width), mod.height, mod.depth,
      "v", WidthMm(mod.width),
      "v", WidthMm(mod.width), mod.height,
      "v", mod.height,
      "f 1 2 3 4">>

\* exportData before any export
NoExport == [format |-> "", data |-> <<>>]

-----------------------------------------------------------------------------
(* The modules and control lists handed to the projectors *)

EditorModule(name, width, height, depth) ==
    [name |-> name, width |-> width, height |-> height, depth |-> depth,
     powerDraw |-> Obj(ZeroRails)]

\* getDefaultModule()
DefaultModule ==
    EditorModule(Str(<<"a">>), Num(4 * Scale), Num(1285), Num(25 * Scale))

\* what the width (parseInt), height and depth (parseFloat) fields can leave
\* in currentModule
EditorModules ==
    {DefaultModule,
     EditorModule(Str(<<>>), Num(4 * Scale), Num(1285), Num(25 * Scale)),
     EditorModule(Str(<<"a">>), Num(WidthMin * Scale), Num(HeightMin * Scale),
                  Num(DepthMin * Scale)),
     EditorModule(Str(<<"a">>), Num(WidthMax * Scale), Num(HeightMax * Scale),
                  Num(DepthMax * Scale)),
     EditorModule(Str(<<"a">>), Num((WidthMin - 1) * Scale), Num(1285), Num(25 * Scale)),
     EditorModule(Str(<<"a">>), NaN, Num(1285), Num(25 * Scale)),
     EditorModule(Str(<<"a">>), Num(4 * Scale), NaN, Num(25 * Scale))}

Control(type, x, y) == [type |-> type, x |-> x, y |-> y, label |-> type, id |-> 1]
ControlInputs ==
    {KnobControl, Control("knob", 0, 0), Control("jack", 100, 100),
     Control("switch", 25, 75), Control("slider", 50, 50),
     Control("jack", 120, -20)}
ControlLists == UNION {[1..n -> ControlInputs] : n \in 0..MaxControls}

\* { ...this.currentModule, controls: [...this.controls] }: the record the
\* application hands to create3DModel
DesignSpec(mod, list) ==
    [name |-> mod.name, width |-> mod.width, height |-> mod.height,
     depth |-> mod.depth, powerDraw |-> mod.powerDraw,
     controls |-> Arr(list), images |-> Arr(<<>>),
     hpWidth |-> Undefined, volumeCm3 |-> Undefined]

NoCalls == [createModuleModel |-> 0, create3DModel |-> 0, exportModel |-> 0]

\* the page as the constructors leave it: no add mode, no drag, an empty
\* library, no generateModel() call, no current project
SessionIdle ==
    /\ addControlMode = ""
    /\ listeners = {}
    /\ rackModules = <<>>
    /\ inFlight = <<>>
    /\ progressModalHidden = TRUE
    /\ btnLoading = FALSE
    /\ currentProject = NullProject
    /\ utilization = NullUtilization

\* the projector variables while another service is exercised
ProjectorIdle ==
    /\ SessionIdle
    /\ currentModule = DefaultModule
    /\ controls = <<>>
    /\ scene = FALSE
    /\ currentModel = NullGroup
    /\ moduleGroup = NullGroup
    /\ exportData = NoExport
    /\ calls = NoCalls

-----------------------------------------------------------------------------
(* The projectors *)

\* the editor's createModuleModel(): nothing without a scene
CreateModuleModel ==
    /\ calls.createModuleModel < MaxCalls
    /\ calls' = [calls EXCEPT !.createModuleModel = @ + 1]
    /\ currentModel' = (IF scene
                        THEN createModuleModel(currentModel, currentModule, controls)
                        ELSE currentModel)
    /\ UNCHANGED <<currentModule, controls, scene, exportData, moduleGroup,
                   moduleVars, projectVars, generationVars,
                       sessionVars>>

\* ModuleDesignService.create3DModel(moduleSpec) of the editor's design
Create3DModel ==
    /\ calls.create3DModel < MaxCalls
    /\ calls' = [calls EXCEPT !.create3DModel = @ + 1]
    /\ moduleSpec' = DesignSpec(currentModule, controls)
    /\ module' = createModule(moduleSpec')
    /\ moduleGroup' = create3DModel(module')
    /\ UNCHANGED <<pc, validationResult, module2, editorVars,
                   projectVars, generationVars, sessionVars>>

\* the editor's exportModel(format): an alert and nothing else without a model
ExportModel ==
    \E format \in {"stl", "obj"} :
        /\ calls.exportModel < MaxCalls
        /\ calls' = [calls EXCEPT !.exportModel = @ + 1]
        /\ exportData' =
              (IF currentModel.isNull
               THEN exportData
               ELSE [format |-> format,
                     data |-> IF format = "stl" THEN generateSTLData(currentModule)
                              ELSE generateOBJData(currentModule)])
        /\ UNCHANGED <<currentModule, controls, scene, currentModel, moduleGroup,
                       moduleVars, projectVars, generationVars,
                       sessionVars>>

-----------------------------------------------------------------------------
(* The editor: what a text field holds, and parseInt / parseFloat of it *)

Digits == <<"0", "1", "2", "3", "4", "5", "6", "7", "8", "9">>
IsDigit(c) == \E d \in 1..Len(Digits) : Digits[d] = c
DigitValue(c) == (CHOOSE d \in 1..Len(Digits) : Digits[d] = c) - 1

\* the digits chars starts with: how many there are and the number they spell
RECURSIVE LeadingDigits(_, _, _)
LeadingDigits(chars, count, value) ==
    IF chars # <<>> /\ IsDigit(Head(chars))
    THEN LeadingDigits(Tail(chars), count + 1,
                       value * Len(Digits) + DigitValue(Head(chars)))
    ELSE [count |-> count, value |-> value, rest |-> chars]

HasSign(chars) == chars # <<>> /\ Head(chars) \in {"-", "+"}
Unsigned(chars) == IF HasSign(chars) THEN Tail(chars) ELSE chars
Signed(chars, n) == IF chars # <<>> /\ Head(chars) = "-" THEN 0 - n ELSE n

\* parseInt(value): an optional sign and the digits that follow it; NaN
\* without a digit
parseInt(chars) ==
    LET whole == LeadingDigits(Unsigned(TrimStart(chars)), 0, 0)
    IN  IF whole.count = 0 THEN NaN
        ELSE Num(Signed(TrimStart(chars), whole.value * Scale))

\* parseFloat(value), for values of at most one decimal
parseFloat(chars) ==
    LET whole == LeadingDigits(Unsigned(TrimStart(chars)), 0, 0)
        decimals == IF whole.rest # <<>> /\ Head(whole.rest) = "."
                    THEN LeadingDigits(Tail(whole.rest), 0, 0)
                    ELSE [count |-> 0, value |-> 0, rest |-> whole.rest]
    IN  IF whole.count = 0 /\ decimals.count = 0 THEN NaN
        ELSE Num(Signed(TrimStart(chars), whole.value * Scale + decimals.value))

-----------------------------------------------------------------------------
(* The editor: objects that are shared, not copied *)

\* the object a record stands for; the objects of the constructor are object 0
RefOf(object) == IF "ref" \in DOMAIN object THEN object.ref ELSE 0
At(object, ref) == [x \in {"ref"} |-> ref] @@ object

ControlRefs(list) == {RefOf(list[i]) : i \in 1..Len(list)}

\* the control objects something still points to; the element drawn for a
\* control stands for it
LiveControls ==
    {0} \cup ControlRefs(controls)
        \cup UNION {ControlRefs(rackModules[k].controls) : k \in 1..Len(rackModules)}
        \cup {l.element : l \in listeners}

\* a new object
NewRef(used) ==
    CHOOSE n \in 1..(Cardinality(used) + 1) :
        /\ n \notin used
        /\ \A m \in 1..(n - 1) : m \in used

\* the objects JSON.parse makes of a list
RECURSIVE Parsed(_, _)
Parsed(list, used) ==
    IF list = <<>> THEN <<>>
    ELSE <<At(Head(list), NewRef(used))>>
         \o Parsed(Tail(list), used \cup {NewRef(used)})

\* object.x = x; object.y = y, seen through every list that holds the object
SetXY(list, refs, x, y) ==
    [i \in 1..Len(list) |->
        IF RefOf(list[i]) \in refs THEN [list[i] EXCEPT !.x = x, !.y = y]
        ELSE list[i]]

\* powerDraw[rail] = value, seen through every module that holds the object
SetRail(powerDraw, ref, rail, value) ==
    IF RefOf(powerDraw) = ref
    THEN [powerDraw EXCEPT !.r = [@ EXCEPT ![rail] = value]]
    ELSE powerDraw

-----------------------------------------------------------------------------
(* The editor: what the user types, clicks and loads *)

\* what #moduleWidth, #moduleHeight and #moduleDepth can hold
WidthFieldInputs == {<<"2">>, <<"5", "0">>, <<"-", "1">>, <<>>}
HeightFieldInputs == {<<"1", "5", "0">>, <<"9", "0">>, <<"1", "2", "8", ".", "5">>}
DepthFieldInputs == {<<"1", "0">>}

\* the power fields a value is typed into, and the values
PowerFields == {"+12V"}
PowerFieldInputs == {<<"8", "0">>}

\* the buttons addKnob, addJack and addSwitch
ControlTypes == {"knob", "jack", "switch"}

\* where the panel is clicked, in percent of the rectangle of the target
ClickPoints == {<<25, 75>>}
\* where the pointer is during a drag, in percent of the panel: on it and
\* beyond its right and upper edge
PointerPoints == {<<50, 50>>, <<120, -20>>}

\* project files: one the editor saved, one edited by hand, and an empty
\* object
SavedFile ==
    [currentModule |-> EditorModule(Str(<<"a">>), Num(8 * Scale), Num(1285),
                                    Num(25 * Scale)),
     controls |-> Arr(<<Control("knob", 25, 75)>>),
     rackModules |-> Arr(<<>>)]
EditedFile ==
    [currentModule |-> EditorModule(Str(<<"a">>), Num(50 * Scale), Num(1285),
                                    Num(25 * Scale)),
     controls |-> Arr(<<Control("jack", 120, -20), Control("knob", 0, 0)>>),
     rackModules |-> Undefined]
EmptyFile ==
    [currentModule |-> Undefined, controls |-> Undefined, rackModules |-> Undefined]
ProjectFiles == {SavedFile, EditedFile, EmptyFile}

-----------------------------------------------------------------------------
(* The editor: its handlers *)

\* what the handlers of the panel leave alone
serviceVars == <<moduleVars, projectVars, generationVars, moduleGroup, calls,
                 progressVars, currentProject, utilization>>

\* the 'change' handler of #moduleWidth
ModuleWidthChange ==
    \E chars \in WidthFieldInputs :
        /\ currentModule' = [currentModule EXCEPT !.width = parseInt(chars)]
        /\ UNCHANGED <<controls, scene, currentModel, exportData, panelVars,
                       serviceVars>>

\* the 'input' handler of #moduleHeight
ModuleHeightInput ==
    \E chars \in HeightFieldInputs :
        /\ currentModule' = [currentModule EXCEPT !.height = parseFloat(chars)]
        /\ UNCHANGED <<controls, scene, currentModel, exportData, panelVars,
                       serviceVars>>

\* the 'input' handler of #moduleDepth
ModuleDepthInput ==
    \E chars \in DepthFieldInputs :
        /\ currentModule' = [currentModule EXCEPT !.depth = parseFloat(chars)]
        /\ UNCHANGED <<controls, scene, currentModel, exportData, panelVars,
                       serviceVars>>

\* parseInt(value) || 0, in mA
ParsedRail(chars) ==
    IF Truthy(parseInt(chars)) THEN RailNum(parseInt(chars).n \div Scale)
    ELSE RailNum(0)

\* the 'input' handler of #power12V, #powerNeg12V and #power5V: it writes
\* into the powerDraw object currentModule points to
PowerInput ==
    \E rail \in PowerFields, chars \in PowerFieldInputs :
        LET ref == RefOf(currentModule.powerDraw)
        IN  /\ currentModule' =
                 [currentModule EXCEPT
                    !.powerDraw = SetRail(@, ref, rail, ParsedRail(chars))]
            /\ rackModules' =
                 [k \in 1..Len(rackModules) |->
                    [rackModules[k] EXCEPT
                       !.powerDraw = SetRail(@, ref, rail, ParsedRail(chars))]]
            /\ UNCHANGED <<controls, scene, currentModel, exportData,
                           addControlMode, listeners, serviceVars>>

\* setAddControlMode(type)
setAddControlMode(types) ==
    \E type \in types :
        /\ addControlMode' = type
        /\ UNCHANGED <<editorVars, listeners, rackModules, serviceVars>>

\* a click on addKnob, addJack or addSwitch
ArmAddControl == setAddControlMode(ControlTypes)
\* a click on addKnob
ArmAddKnob == setAddControlMode({"knob"})

\* the control handlePanelClick builds for a click at (x, y) percent of the
\* rectangle of its target
NewControl(type, x, y, count, instant, ref) ==
    [type |-> type, x |-> x, y |-> y, label |-> <<type, count + 1>>,
     id |-> instant, ref |-> ref]

\* handlePanelClick(e) without its first line: a control whether add mode is
\* armed or not
HandlePanelClickUnarmed ==
    \E point \in ClickPoints :
        /\ Len(controls) < MaxControls
        /\ controls' = Append(controls,
                              NewControl(addControlMode, point[1], point[2],
                                         Len(controls), now, NewRef(LiveControls)))
        /\ addControlMode' = ""
        /\ UNCHANGED <<currentModule, scene, currentModel, exportData,
                       listeners, rackModules, serviceVars>>

\* handlePanelClick(e): nothing unless add mode is armed
handlePanelClick ==
    \E point \in ClickPoints :
        IF addControlMode = ""
        THEN UNCHANGED vars
        ELSE /\ Len(controls) < MaxControls
             /\ controls' = Append(controls,
                                   NewControl(addControlMode, point[1], point[2],
                                              Len(controls), now, NewRef(LiveControls)))
             /\ addControlMode' = ""
             /\ UNCHANGED <<currentModule, scene, currentModel, exportData,
                            listeners, rackModules, serviceVars>>

\* startDragControl(e, index), the 'mousedown' handler of the element drawn
\* for controls[index]
startDragControl ==
    \E index \in 0..(Len(controls) - 1) :
        /\ Cardinality(listeners) < MaxDrags
        /\ listeners' = listeners \cup
                          {[index |-> index, element |-> RefOf(controls[index + 1])]}
        /\ UNCHANGED <<editorVars, addControlMode, rackModules, serviceVars>>

\* Math.max(0, Math.min(100, v))
Clamp(v) == IF v < 0 THEN 0 ELSE IF v > 100 THEN 100 ELSE v

\* the objects this.controls[index] of the drags under way
Dragged(list, under) ==
    {RefOf(list[l.index + 1]) : l \in {m \in under : m.index < Len(list)}}

\* onMouseMove(e) of every drag under way, the pointer at (x, y) percent of
\* the panel
onMouseMove(points) ==
    \E point \in points :
        /\ listeners # {}
        /\ controls' = SetXY(controls, Dragged(controls, listeners),
                             Clamp(point[1]), Clamp(point[2]))
        /\ rackModules' =
             [k \in 1..Len(rackModules) |->
                [rackModules[k] EXCEPT
                   !.controls = SetXY(@, Dragged(controls, listeners),
                                      Clamp(point[1]), Clamp(point[2]))]]
        /\ UNCHANGED <<currentModule, scene, currentModel, exportData,
                       addControlMode, listeners, serviceVars>>

\* the pointer moves over the panel and beyond it
PointerMoves == onMouseMove(PointerPoints)
\* the pointer moves beyond the panel
PointerLeavesPanel == onMouseMove({<<120, -20>>})

\* onMouseUp() of every drag under way
onMouseUp ==
    /\ listeners # {}
    /\ listeners' = {}
    /\ UNCHANGED <<editorVars, addControlMode, rackModules, serviceVars>>

\* clearControls()
clearControls ==
    /\ controls' = <<>>
    /\ UNCHANGED <<currentModule, scene, currentModel, exportData, panelVars,
                   serviceVars>>

\* list.splice(index, 1)
Splice(list, index) ==
    [i \in 1..(Len(list) - 1) |-> IF i <= index THEN list[i] ELSE list[i + 1]]

\* the 'click' handler of the remove button updateControlsList drew for
\* controls[index]
removeControl ==
    \E index \in 0..(Len(controls) - 1) :
        /\ controls' = Splice(controls, index)
        /\ UNCHANGED <<currentModule, scene, currentModel, exportData, panelVars,
                       serviceVars>>

\* addModuleToLibrary(): an alert and nothing else without a model
addModuleToLibrary ==
    IF currentModel.isNull
    THEN UNCHANGED vars
    ELSE /\ Len(rackModules) < MaxLibrary
         /\ rackModules' =
              Append(rackModules,
                     [x \in {"id"} |-> now] @@ [x \in {"controls"} |-> controls]
                        @@ currentModule)
         /\ UNCHANGED <<editorVars, addControlMode, listeners, serviceVars>>

\* loadProjectData(project), project being what JSON.parse made of a file
loadProjectData ==
    \E file \in ProjectFiles :
        LET kept == {0} \cup {l.element : l \in listeners}
            loaded == IF file.currentModule = Undefined THEN DefaultModule
                      ELSE file.currentModule
            list == IF Truthy(file.controls) THEN file.controls.a ELSE <<>>
        IN  /\ currentModule' =
                 [loaded EXCEPT !.powerDraw = At(@, NewRef({0}))]
            /\ controls' = Parsed(list, kept)
            /\ rackModules' = <<>>
            /\ UNCHANGED <<scene, currentModel, exportData, addControlMode,
                           listeners, serviceVars>>

-----------------------------------------------------------------------------
(* The editor's generateModel: an async function with GenerationSteps awaits *)

\* steps.length of simulateAIGeneration
GenerationSteps == 7

\* generateModel() up to its first await: the button gets class 'loading',
\* the modal loses class 'hidden', and the call waits for the timer of step 0
generateModel ==
    /\ Len(inFlight) < MaxGenerate
    /\ calls.createModuleModel + Len(inFlight) < MaxCalls
    /\ btnLoading' = TRUE
    /\ progressModalHidden' = FALSE
    /\ inFlight' = Append(inFlight, [i |-> 0])
    /\ UNCHANGED <<editorVars, panelVars, moduleVars, projectVars,
                   generationVars, moduleGroup, calls, currentProject,
                   utilization>>

\* the timer one call waits on elapses: the loop of simulateAIGeneration goes
\* on to its next step, and after the last step generateModel runs
\* createModuleModel() and its finally block, and returns
GenerationTimerElapsed ==
    \E k \in 1..Len(inFlight) :
        IF inFlight[k].i + 1 < GenerationSteps
        THEN /\ inFlight' = [inFlight EXCEPT ![k].i = @ + 1]
             /\ UNCHANGED <<editorVars, panelVars, moduleVars, projectVars,
                            generationVars, moduleGroup, calls, currentProject,
                            utilization, progressModalHidden, btnLoading>>
        ELSE /\ inFlight' = Splice(inFlight, k - 1)
             /\ calls' = [calls EXCEPT !.createModuleModel = @ + 1]
             /\ currentModel' =
                  (IF scene
                   THEN createModuleModel(currentModel, currentModule, controls)
                   ELSE currentModel)
             /\ btnLoading' = FALSE
             /\ progressModalHidden' = TRUE
             /\ UNCHANGED <<currentModule, controls, scene, exportData,
                            panelVars, moduleVars, projectVars, generationVars,
                            moduleGroup, currentProject, utilization>>

-----------------------------------------------------------------------------
(* Rack utilization of a persisted project *)

\* module widths and rack widths of the persisted projects, in HP
UtilizationModuleWidths == {4, 20, WidthMax}
UtilizationRackWidths == {RackWidthMin, 104, RackWidthMax}

ModuleSpecOfWidth(hp) == [ValidModuleSpec EXCEPT !.width = Num(hp * Scale)]

\* the project an earlier createProject persisted for these modules and rack
UtilizationProject(widths, rackWidth) ==
    JsonProject(
        _normalizeProjectSpec(
            [PersistedSpec EXCEPT
                !.modules = Arr([i \in 1..Len(widths) |-> ModuleSpecOfWidth(widths[i])]),
                !.rack = Rack(Num(rackWidth * Scale), GoodRack.powerSupply)], 0)
        @@ [id |-> _generateProjectId(0, 1)])

UtilizationStores ==
    {<<UtilizationProject(widths, rackWidth)>> :
        widths \in UNION {[1..n -> UtilizationModuleWidths] : n \in 0..MaxModules},
        rackWidth \in UtilizationRackWidths}

\* validateRackUtilization(projectId), with the getProjectById it calls
ValidateRackUtilization ==
    \E id \in ProjectIds :
        /\ lastCall' = "validateRackUtilization"
        /\ projectId' = id
        /\ found' = getProjectById(_projectCache, localStorage, id)
        /\ _projectCache' = CacheAfterGet(_projectCache, localStorage, id)
        /\ utilization' =
             validateRackUtilization(getProjectById(_projectCache, localStorage, id))
        /\ UNCHANGED <<projectSpec, project, updates, projectValidation,
                       localStorage, now, currentProject, moduleVars,
                       generationVars, projectorVars, panelVars, progressVars>>

-----------------------------------------------------------------------------
(* Specifications *)

\* the module service applied to every record of ModuleSpecs
Init ==
    /\ pc = "input"
    /\ moduleSpec \in ModuleSpecs
    /\ validationResult = NotValidated
    /\ module = NullModule
    /\ module2 = NullModule
    /\ ProjectInit
    /\ GenerationIdle
    /\ ProjectorIdle

Next == ValidateModule \/ CreateModule \/ CreateModuleAgain

Spec == Init /\ [][Next]_vars

\* the project service, from an empty store
InitProject == ModuleIdle /\ ProjectInit /\ GenerationIdle /\ ProjectorIdle

NextProject == CreateProject \/ Tick

SpecProject == InitProject /\ [][NextProject]_vars

\* the project service, from what an earlier session persisted
InitStore ==
    /\ ModuleIdle
    /\ ProjectIdle
    /\ localStorage \in PersistedStores
    /\ GenerationIdle
    /\ ProjectorIdle

NextStore == CreateProjectInStore \/ UpdateProject \/ Tick

SpecStore == InitStore /\ [][NextStore]_vars

\* the project service and the application controller, from what an earlier
\* session persisted
NextCache ==
    \/ CreateProjectInStore
    \/ UpdateProject
    \/ GetProjectById
    \/ DeleteProject
    \/ HandleGeneratedModel

SpecCache == InitStore /\ [][NextCache]_vars

\* overlapping generateModel() calls while the width field is edited
InitGenerate ==
    /\ ModuleIdle
    /\ ProjectInit
    /\ GenerationIdle
    /\ currentModule = DefaultModule
    /\ controls = <<>>
    /\ scene \in BOOLEAN
    /\ currentModel = NullGroup
    /\ moduleGroup = NullGroup
    /\ exportData = NoExport
    /\ calls = NoCalls
    /\ SessionIdle

NextGenerate == generateModel \/ GenerationTimerElapsed \/ ModuleWidthChange

SpecGenerate == InitGenerate /\ [][NextGenerate]_vars

\* validateRackUtilization on the projects an earlier session persisted
InitUtilization ==
    /\ ModuleIdle
    /\ ProjectIdle
    /\ localStorage \in UtilizationStores
    /\ GenerationIdle
    /\ ProjectorIdle

NextUtilization == ValidateRackUtilization \/ GetProjectById

SpecUtilization == InitUtilization /\ [][NextUtilization]_vars

\* the module validator and the project validator on records with absent,
\* null and wrongly typed fields
InitRules ==
    /\ pc = "input"
    /\ moduleSpec \in RuleModuleSpecs
    /\ validationResult = NotValidated
    /\ module = NullModule
    /\ module2 = NullModule
    /\ ProjectInit
    /\ GenerationIdle
    /\ ProjectorIdle

NextRules == ValidateModule \/ CreateRuleProject

SpecRules == InitRules /\ [][NextRules]_vars

\* the generation validator applied to every record of GenerationSpecs
InitGeneration ==
    /\ ModuleIdle
    /\ ProjectInit
    /\ generationSpec \in GenerationSpecs
    /\ generationResult = NotValidatedGeneration
    /\ ProjectorIdle

NextGeneration == ValidateGeneration

SpecGeneration == InitGeneration /\ [][NextGeneration]_vars

\* the editor as its constructor leaves it
EditorInit ==
    /\ ModuleIdle
    /\ ProjectInit
    /\ GenerationIdle
    /\ currentModule = DefaultModule
    /\ controls = <<>>
    /\ scene = TRUE
    /\ currentModel = NullGroup
    /\ moduleGroup = NullGroup
    /\ exportData = NoExport
    /\ calls = NoCalls
    /\ SessionIdle

\* the dimension fields, project files and the projector
NextDimensions ==
    \/ ModuleWidthChange
    \/ ModuleHeightInput
    \/ ModuleDepthInput
    \/ loadProjectData
    \/ CreateModuleModel

SpecDimensions == EditorInit /\ [][NextDimensions]_vars

\* the controls of the panel
NextControls ==
    \/ ArmAddControl
    \/ handlePanelClick
    \/ startDragControl
    \/ PointerMoves
    \/ onMouseUp
    \/ removeControl
    \/ clearControls
    \/ loadProjectData

SpecControls == EditorInit /\ [][NextControls]_vars

\* the editor once a model of the default module has been generated
LibraryInit ==
    /\ ModuleIdle
    /\ ProjectInit
    /\ GenerationIdle
    /\ currentModule = DefaultModule
    /\ controls = <<>>
    /\ scene = TRUE
    /\ currentModel = createModuleModel(NullGroup, DefaultModule, <<>>)
    /\ moduleGroup = NullGroup
    /\ exportData = NoExport
    /\ calls = NoCalls
    /\ SessionIdle

\* the library and what the user does to the module after committing it
NextLibrary ==
    \/ addModuleToLibrary
    \/ ArmAddKnob
    \/ handlePanelClick
    \/ startDragControl
    \/ PointerLeavesPanel
    \/ onMouseUp
    \/ removeControl
    \/ PowerInput
    \/ ModuleDepthInput

SpecLibrary == LibraryInit /\ [][NextLibrary]_vars

\* the two projectors and the exports, on every design of EditorModules and
\* ControlLists
InitProjector ==
    /\ ModuleIdle
    /\ ProjectInit
    /\ GenerationIdle
    /\ currentModule \in EditorModules
    /\ controls \in ControlLists
    /\ scene \in BOOLEAN
    /\ currentModel = NullGroup
    /\ moduleGroup = NullGroup
    /\ exportData = NoExport
    /\ calls = NoCalls
    /\ SessionIdle

NextProjector == CreateModuleModel \/ Create3DModel \/ ExportModel

SpecProjector == InitProjector /\ [][NextProjector]_vars

-----------------------------------------------------------------------------
(* What the claims speak of *)

Validated == pc \in {"validated", "created", "done"}
Created == pc \in {"created", "done"}

\* a number within [lo, hi], bounds given in whole units
InRange(v, lo, hi) == v.k = "number" /\ lo * Scale <= v.n /\ v.n <= hi * Scale
IsWhole(v) == v.k = "number" /\ v.n % Scale = 0
RailInRange(d) == d.k = "number" /\ 0 <= d.n /\ d.n <= maxPowerPerRail

DimensionsInRange(spec) ==
    /\ InRange(spec.width, WidthMin, WidthMax)
    /\ InRange(spec.height, HeightMin, HeightMax)
    /\ InRange(spec.depth, DepthMin, DepthMax)

\* a powerDraw object that gives every rail a number in [0, 500]
AllRailsGiven(powerDraw) ==
    powerDraw.k = "object" /\ \A rail \in Rails : RailInRange(powerDraw.r[rail])

\* a powerDraw object whose rails are each omitted or a number in [0, 500]
RailsGivenOrOmitted(powerDraw) ==
    /\ powerDraw.k = "object"
    /\ \A rail \in Rails :
          powerDraw.r[rail].k = "undefined" \/ RailInRange(powerDraw.r[rail])

\* a name as the data model wants it: 1 to 50 characters, not blank
GoodName(v) ==
    /\ v.k = "string"
    /\ Len(v.s) >= NameMinLength
    /\ Len(v.s) <= NameMaxLength
    /\ Trim(v.s) # <<>>

MentionsField(errors, key) == \E i \in 1..Len(errors) : errors[i].key = key

\* C1: a record with a string name, width in [2,42], height in [100,150],
\* depth in [20,45] and every power rail a number in [0,500] validates with
\* isValid = true and no errors, and createModule returns a record for it.
C1_ValidSpecAccepted ==
    (/\ moduleSpec.name.k = "string"
     /\ DimensionsInRange(moduleSpec)
     /\ AllRailsGiven(moduleSpec.powerDraw))
    => /\ Validated => validationResult =
                         [threw |-> FALSE, isValid |-> TRUE, errors |-> <<>>]
       /\ Created => ~module.isNull

\* C1 witness: a record on the lower width bound and the upper height and
\* power bounds has been created
C1_Witness ==
    /\ pc = "created"
    /\ moduleSpec.name.k = "string"
    /\ moduleSpec.width = Num(WidthMin * Scale)
    /\ moduleSpec.height = Num(HeightMax * Scale)
    /\ InRange(moduleSpec.depth, DepthMin, DepthMax)
    /\ AllRailsGiven(moduleSpec.powerDraw)
    /\ moduleSpec.powerDraw.r["+12V"] = RailNum(maxPowerPerRail)
    /\ validationResult.isValid
    /\ ~module.isNull

\* C2 (the claim as stated): createModule of an otherwise valid record whose
\* powerDraw is omitted, or has rails omitted, returns a record whose
\* powerDraw has the three rails, every omitted one 0.
C2_OmittedPowerDrawFilled ==
    (/\ Created
     /\ GoodName(moduleSpec.name)
     /\ DimensionsInRange(moduleSpec)
     /\ \/ moduleSpec.powerDraw.k = "undefined"
        \/ RailsGivenOrOmitted(moduleSpec.powerDraw))
    => /\ ~module.isNull
       /\ module.powerDraw.k = "object"
       /\ \A rail \in Rails :
             GetRail(moduleSpec.powerDraw, rail).k = "undefined"
                => module.powerDraw.r[rail] = RailNum(0)

\* C3 (the claim as stated): every record createModule returns has whole
\* width, height and depth within their ranges and every rail in [0,500].
C3_NormalizedInRange ==
    (Created /\ ~module.isNull)
    => /\ IsWhole(module.width) /\ InRange(module.width, WidthMin, WidthMax)
       /\ IsWhole(module.height) /\ InRange(module.height, HeightMin, HeightMax)
       /\ IsWhole(module.depth) /\ InRange(module.depth, DepthMin, DepthMax)
       /\ \A rail \in Rails : RailInRange(module.powerDraw.r[rail])

\* C4 (the claim as stated): a returned name is trimmed and 1 to 50 characters
\* long, and an empty, blank or over-long name is rejected.
C4_NameTrimmedAndBounded ==
    Created
    => /\ ~module.isNull
          => /\ module.name.s = Trim(module.name.s)
             /\ Len(module.name.s) >= NameMinLength
             /\ Len(module.name.s) <= NameMaxLength
       /\ (/\ moduleSpec.name.k = "string"
           /\ \/ Trim(moduleSpec.name.s) = <<>>
              \/ Len(moduleSpec.name.s) > NameMaxLength)
          => module.isNull

C6_ValidationNeverThrows ==
    Validated
    => /\ ~validationResult.threw
       /\ validationResult.isValid <=> (validationResult.errors = <<>>)

\* the rules _moduleSchema declares for a field, read off the schema: required,
\* type, minLength / maxLength, min / max and the power-draw validator
ViolatesDeclaredRule(key, value) ==
    LET rules == _moduleSchema[key]
    IN  IF value.k \in {"undefined", "null"}
        THEN rules.required
        ELSE \/ rules.type # "" /\ TypeOf(value) # rules.type
             \/ /\ rules.type = "string" /\ value.k = "string"
                /\ \/ Len(value.s) < rules.minLength
                   \/ Len(value.s) > rules.maxLength
             \/ rules.hasMin /\ LessThan(value, rules.min)
             \/ rules.hasMax /\ GreaterThan(value, rules.max)
             \/ /\ rules.validator # ""
                /\ \E rail \in Rails :
                      LET draw == GetRail(value, rail)
                      IN  \/ draw.k = "string"
                          \/ draw.k = "number" /\ ~RailInRange(draw)

\* C7 (the claim as stated): whenever validation returns, the returned errors
\* name every schema field whose value violates one of its rules.
C7_EveryViolatingFieldReported ==
    (Validated /\ ~validationResult.threw)
    => \A i \in 1..Len(moduleSchemaKeys) :
          ViolatesDeclaredRule(moduleSchemaKeys[i], moduleSpec[moduleSchemaKeys[i]])
             => MentionsField(validationResult.errors, moduleSchemaKeys[i])

\* C8: when createModule(x) succeeds, createModule(createModule(x)) succeeds
\* and equals it in every field.
C8_NormalizationIdempotent ==
    (pc = "done")
    => /\ ~module2.isNull
       /\ \A f \in {"name", "width", "height", "depth", "powerDraw", "controls",
                    "images", "hpWidth", "volumeCm3"} : module2[f] = module[f]

\* C8 witness: a record whose name was trimmed and whose width was rounded has
\* been created twice
C8_Witness ==
    /\ pc = "done"
    /\ moduleSpec.name.s # module.name.s
    /\ moduleSpec.width # module.width
    /\ moduleSpec.powerDraw # module.powerDraw
    /\ ~module2.isNull
    /\ module2 = module

\* the derived fields of a returned record, from its own dimensions
DerivedFromDimensions(m) ==
    /\ m.width.k = "number"
          => /\ m.hpWidth.k = "number"
             /\ m.hpWidth.n = m.width.n * hpUnit
    /\ m.width.k # "number" => m.hpWidth.k = "NaN"
    /\ (IsWhole(m.width) /\ IsWhole(m.height) /\ IsWhole(m.depth))
          => /\ m.volumeCm3.k = "number"
             /\ m.volumeCm3.n =
                   (m.hpWidth.n \div Scale) * (m.height.n \div Scale)
                      * (m.depth.n \div Scale)

\* C9: in every returned record hpWidth is width * 5.08 and volumeCm3 is
\* width * 5.08 * height / 10 * depth / 10 of the normalized dimensions,
\* whatever hpWidth and volumeCm3 the input carried.
C9_DerivedFieldsRecomputed ==
    /\ (Created /\ ~module.isNull) => DerivedFromDimensions(module)
    /\ (pc = "done" /\ ~module2.isNull) => DerivedFromDimensions(module2)

\* C9 witness: a 2 HP record that carried its own hpWidth and volumeCm3 has
\* been created
C9_Witness ==
    /\ pc = "created"
    /\ ~module.isNull
    /\ moduleSpec.hpWidth = Num(999)
    /\ moduleSpec.volumeCm3 = Num(1)
    /\ module.width = Num(WidthMin * Scale)
    /\ module.hpWidth = Num(WidthMin * Scale * hpUnit)

\* a ProjectSpec that meets the data model: a 1..100 character name, at least
\* one module and every module valid, rack.width in [84,168], a number for
\* every power-supply rail
MeetsProjectDataModel(spec) ==
    /\ spec.name.k = "string"
    /\ Len(spec.name.s) >= ProjectNameMinLength
    /\ Len(spec.name.s) <= ProjectNameMaxLength
    /\ spec.modules.k = "array"
    /\ Len(spec.modules.a) >= 1
    /\ \A i \in 1..Len(spec.modules.a) :
          /\ GoodName(spec.modules.a[i].name)
          /\ DimensionsInRange(spec.modules.a[i])
          /\ AllRailsGiven(spec.modules.a[i].powerDraw)
    /\ spec.rack.k = "object"
    /\ InRange(spec.rack.width, RackWidthMin, RackWidthMax)
    /\ spec.rack.powerSupply.k = "object"
    /\ \A rail \in Rails : spec.rack.powerSupply.r[rail].k = "number"

\* C10 (the claim as stated): createProject of a ProjectSpec that meets the
\* data model returns a project that is stored, with version 1 and
\* createdAt = updatedAt.
C10_ValidProjectCreated ==
    (lastCall = "createProject" /\ MeetsProjectDataModel(projectSpec))
    => /\ ~project.isNull
       /\ \E i \in 1..Len(localStorage) : localStorage[i].id = project.id
       /\ project.metadata.version = 1
       /\ project.metadata.createdAt = project.metadata.updatedAt

\* updateProject ran on a project the store holds, with updates that leave the
\* merged record within the data model
UpdatedStoredProject ==
    /\ lastCall = "updateProject"
    /\ ~found.isNull
    /\ MeetsProjectDataModel(MergeUpdates(found, updates, now))

\* C11 (the claim as stated): updateProject on a stored project, with updates
\* that keep it valid, returns a record whose version is the stored version
\* plus one, whose updatedAt is not before the stored updatedAt and not before
\* its createdAt.
C11_UpdateBumpsVersion ==
    UpdatedStoredProject
    => /\ ~project.isNull
       /\ project.metadata.version = found.metadata.version + 1
       /\ project.metadata.updatedAt >= found.metadata.updatedAt
       /\ project.metadata.updatedAt >= project.metadata.createdAt

\* a rack outside the rack sub-schema: width outside [84,168], or a rail of
\* powerSupply that is not a number in [0,2000]
RackOutsideSchema(rack) ==
    /\ rack.k = "object"
    /\ \/ ~InRange(rack.width, RackWidthMin, RackWidthMax)
       \/ rack.powerSupply.k # "object"
       \/ \E rail \in Rails :
             LET d == GetRail(rack.powerSupply, rail)
             IN  ~(d.k = "number" /\ 0 <= d.n /\ d.n <= maxCurrentPerRail)

\* the record the last call validated
ValidatedProjectRecord ==
    IF lastCall = "createProject" THEN projectSpec
    ELSE MergeUpdates(found, updates, now)

MeetsGenerationDataModel(spec) ==
    /\ spec.inputType \in supportedTypes
    /\ spec.dimensions.k = "object"
    /\ \A i \in 1..Len(dimensionKeys) :
          InRange(spec.dimensions[dimensionKeys[i]], GenerationDimMin, GenerationDimMax)
    /\ spec.images.k = "array"
    /\ Len(spec.images.a) >= ImagesMinLength
    /\ Len(spec.images.a) <= ImagesMaxLength
    /\ spec.qualityPreset \in {Undefined, Word("draft"), Word("standard"), Word("high")}

\* C13 (the claim as stated): a GenerationRequest within the data model passes
\* _validateGenerationSpec: isValid is true and the errors are empty.
C13_ValidGenerationAccepted ==
    (generationResult.ran /\ MeetsGenerationDataModel(generationSpec))
    => /\ ~generationResult.threw
       /\ generationResult.isValid
       /\ generationResult.errors = <<>>

\* the control types the projectors know
RecognisedTypes == {"knob", "jack", "switch"}
Recognised(list) == SelectSeq(list, LAMBDA c : c.type \in RecognisedTypes)

\* the children of a group after its first boxes children
Placements(group, boxes) == SubSeq(group.children, boxes + 1, Len(group.children))
\* the control meshes of the service's group (after the panel) and of the
\* editor's group (after panel, PCB and housing)
ServicePlacements == Placements(moduleGroup, 1)
EditorPlacements == Placements(currentModel, 3)

\* position is (x/100 * widthMm - widthMm/2, heightMm/2 - y/100 * heightMm,
\* depth/2 + 1) for control c, each equation cleared of its fractions
AtClaimedPosition(position, c, width, height, depth) ==
    /\ IF width.k = "number"
       THEN /\ position.x.k = "number"
            /\ 100 * position.x.n = (c.x - 50) * WidthMm(width).n
       ELSE position.x.k = "NaN"
    /\ IF height.k = "number"
       THEN /\ position.y.k = "number"
            /\ 100 * position.y.n = (50 - c.y) * Mm(height).n
       ELSE position.y.k = "NaN"
    /\ IF depth.k = "number"
       THEN /\ position.z.k = "number"
            /\ 2 * position.z.n = Mm(depth).n + 2 * Fine
       ELSE position.z.k = "NaN"

\* every placement of the sequence is at the claimed position of the
\* recognised control of the same rank
AllAtClaimedPosition(placed, list, dims) ==
    /\ Len(placed) = Len(Recognised(list))
    /\ \A i \in 1..Len(placed) :
          AtClaimedPosition(placed[i].position, Recognised(list)[i],
                            dims.width, dims.height, dims.depth)

\* C14: each knob, jack or switch is placed at posX = x/100 * widthMm -
\* widthMm/2, posY = heightMm/2 - y/100 * heightMm, posZ = depth/2 + 1 of the
\* module the projector works on (the editor's currentModule, and for
\* create3DModel the record createModule returned); a control at (0,0) is at
\* (-widthMm/2, heightMm/2), and a knob at (50,50) on a module of width 4,
\* height 128.5, depth 25 is at (0, 0, 13.5).
C14_ControlPositions ==
    /\ ~currentModel.isNull
       => /\ AllAtClaimedPosition(EditorPlacements, controls, currentModule)
          /\ \A i \in 1..Len(EditorPlacements) :
                (/\ Recognised(controls)[i].x = 0
                 /\ Recognised(controls)[i].y = 0
                 /\ currentModule.width.k = "number"
                 /\ currentModule.height.k = "number")
                => /\ 2 * EditorPlacements[i].position.x.n = - WidthMm(currentModule.width).n
                   /\ 2 * EditorPlacements[i].position.y.n = Mm(currentModule.height).n
          /\ (currentModule = DefaultModule /\ controls = <<KnobControl>>)
             => EditorPlacements[1].position
                  = [x |-> Num(0), y |-> Num(0), z |-> Tenths(135)]
    /\ ~moduleGroup.isNull
       => /\ AllAtClaimedPosition(ServicePlacements, module.controls.a, module)
          /\ \A i \in 1..Len(ServicePlacements) :
                (/\ Recognised(module.controls.a)[i].x = 0
                 /\ Recognised(module.controls.a)[i].y = 0
                 /\ module.width.k = "number"
                 /\ module.height.k = "number")
                => /\ 2 * ServicePlacements[i].position.x.n = - WidthMm(module.width).n
                   /\ 2 * ServicePlacements[i].position.y.n = Mm(module.height).n
          /\ (moduleSpec = DesignSpec(DefaultModule, <<KnobControl>>))
             => ServicePlacements[1].position
                  = [x |-> Num(0), y |-> Num(0), z |-> Tenths(135)]

\* C14 witness: both projectors have placed a control at (0,0) and the knob at
\* (50,50) on the module of width 4, height 128.5, depth 25
C14_Witness ==
    /\ currentModule = DefaultModule
    /\ controls = <<Control("knob", 0, 0), KnobControl>>
    /\ ~currentModel.isNull
    /\ ~moduleGroup.isNull
    /\ Len(EditorPlacements) = 2
    /\ Len(ServicePlacements) = 2
    /\ EditorPlacements[1].position.x = Num(-1016 * (Fine \div 100))
    /\ EditorPlacements[2].position.z = Tenths(135)

\* the record passes the module service's validation
ValidatedModule(record, list) == ~createModule(DesignSpec(record, list)).isNull

\* every control of the list has x and y in [0,100]
WithinPercentRange(list) ==
    \A i \in 1..Len(list) :
        /\ 0 <= list[i].x /\ list[i].x <= 100
        /\ 0 <= list[i].y /\ list[i].y <= 100

\* a defined position within the panel of the given width and height
OnPanel(position, width, height) ==
    /\ position.x.k = "number"
    /\ position.y.k = "number"
    /\ width.k = "number"
    /\ height.k = "number"
    /\ - WidthMm(width).n <= 2 * position.x.n
    /\ 2 * position.x.n <= WidthMm(width).n
    /\ - Mm(height).n <= 2 * position.y.n
    /\ 2 * position.y.n <= Mm(height).n

\* C15 (the claim as stated): for a module that passed validation and
\* controls with x and y in [0,100], every projected position is a defined
\* number and lies on the panel.
C15_PositionsOnPanel ==
    /\ (~moduleGroup.isNull /\ WithinPercentRange(module.controls.a))
       => \A i \in 1..Len(ServicePlacements) :
             OnPanel(ServicePlacements[i].position, module.width, module.height)
    /\ (/\ ~currentModel.isNull
        /\ ValidatedModule(currentModule, controls)
        /\ WithinPercentRange(controls))
       => \A i \in 1..Len(EditorPlacements) :
             OnPanel(EditorPlacements[i].position, currentModule.width,
                     currentModule.height)

\* x' = (posX + widthMm/2) / widthMm * 100 and
\* y' = (heightMm/2 - posY) / heightMm * 100
PercentX(position, width) ==
    IF position.x.k = "number" /\ width.k = "number" /\ width.n # 0
    THEN Num(((position.x.n + WidthMm(width).n \div 2) * 100) \div WidthMm(width).n)
    ELSE NaN
PercentY(position, height) ==
    IF position.y.k = "number" /\ height.k = "number" /\ height.n # 0
    THEN Num(((Mm(height).n \div 2 - position.y.n) * 100) \div Mm(height).n)
    ELSE NaN

\* the percentages re-derived from every placement are those of the control
Recovers(placed, list, dims) ==
    \A i \in 1..Len(placed) :
        /\ PercentX(placed[i].position, dims.width) = Num(Recognised(list)[i].x)
        /\ PercentY(placed[i].position, dims.height) = Num(Recognised(list)[i].y)

\* C16 (the claim as stated): for a module that passed validation and
\* controls with x and y in [0,100], the percentages re-derived from the
\* projected position are the control's x and y.
C16_ProjectionInvertible ==
    /\ (~moduleGroup.isNull /\ WithinPercentRange(module.controls.a))
       => Recovers(ServicePlacements, module.controls.a, module)
    /\ (/\ ~currentModel.isNull
        /\ ValidatedModule(currentModule, controls)
        /\ WithinPercentRange(controls))
       => Recovers(EditorPlacements, controls, currentModule)

\* the geometry of the mesh placed for a control type
ShapeOf(type) == IF type = "switch" THEN "Box" ELSE "Cylinder"

\* one placement per recognised control, in the order of the list
PlacedInOrder(placed, list) ==
    /\ Len(placed) = Len(Recognised(list))
    /\ \A i \in 1..Len(placed) :
          placed[i].geometry.shape = ShapeOf(Recognised(list)[i].type)

\* C17: a control of another type than knob, jack or switch gets no placement
\* and raises no error: whenever the projector runs on a module it accepts, a
\* group comes back whose placements are those of the recognised controls,
\* one each, in order.
C17_UnrecognisedSkipped ==
    /\ (calls.createModuleModel > 0 /\ scene)
       => /\ ~currentModel.isNull
          /\ PlacedInOrder(EditorPlacements, controls)
    /\ (calls.create3DModel > 0 /\ ~module.isNull)
       => /\ ~moduleGroup.isNull
          /\ PlacedInOrder(ServicePlacements, moduleSpec.controls.a)

\* C17 witness: both projectors have run on a slider followed by a knob and
\* placed the knob alone
C17_Witness ==
    /\ controls = <<Control("slider", 50, 50), KnobControl>>
    /\ calls.createModuleModel > 0
    /\ calls.create3DModel > 0
    /\ ~currentModel.isNull
    /\ ~moduleGroup.isNull
    /\ Len(EditorPlacements) = 1
    /\ Len(ServicePlacements) = 1
    /\ ServicePlacements[1].geometry.shape = "Cylinder"

BoxAt(mesh, width, height, depth, z) ==
    /\ mesh.geometry = [shape |-> "Box", size |-> <<width, height, depth>>]
    /\ mesh.position = [x |-> Num(0), y |-> Num(0), z |-> z]

\* the group starts with the panel, the PCB and the housing of the claim
HasThreeBoxes(group, width, height, depth) ==
    /\ Len(group.children) >= 3
    /\ BoxAt(group.children[1], WidthMm(width), Mm(height), Tenths(20),
             Minus(Half(Mm(depth)), Tenths(10)))
    /\ BoxAt(group.children[2], Minus(WidthMm(width), Tenths(40)),
             Minus(Mm(height), Tenths(100)), Tenths(16),
             Minus(Half(Mm(depth)), Tenths(100)))
    /\ BoxAt(group.children[3], WidthMm(width), Mm(height), Mm(depth), Num(0))

\* C19 (the claim as stated): the group of every projection, by
\* createModuleModel and by create3DModel, holds a panel box of widthMm x
\* height x 2 at z = depth/2 - 1, a PCB box of (widthMm - 4) x (height - 10) x
\* 1.6 at z = depth/2 - 10 and a housing box of widthMm x height x depth at
\* the origin.
C19_ThreeBoxes ==
    /\ ~currentModel.isNull
       => HasThreeBoxes(currentModel, currentModule.width, currentModule.height,
                        currentModule.depth)
    /\ ~moduleGroup.isNull
       => HasThreeBoxes(moduleGroup, module.width, module.height, module.depth)

\* the messages of a validation that name the field
ErrorsFor(errors, key) == SelectSeq(errors, LAMBDA e : e.key = key)

\* a required field that is absent or null
RequiredAbsent(rules, value) == rules.required /\ value.k \in {"undefined", "null"}
\* a field that is there and whose typeof is not the declared type
TypeMismatch(rules, value) ==
    /\ ~RequiredAbsent(rules, value)
    /\ value.k # "undefined"
    /\ rules.type # ""
    /\ TypeOf(value) # rules.type

\* the errors hold one message, 'is required', for every required field that
\* is absent or null, and one message, the type message, for every field of
\* the wrong type
ShortCircuits(schema, keys, spec, errors) ==
    \A i \in 1..Len(keys) :
        /\ RequiredAbsent(schema[keys[i]], spec[keys[i]])
           => ErrorsFor(errors, keys[i]) = <<Message(keys[i], "is required", "")>>
        /\ TypeMismatch(schema[keys[i]], spec[keys[i]])
           => ErrorsFor(errors, keys[i]) = <<Message(keys[i], "must be of type", "")>>

\* C20: in _validateModuleSpec and in _validateProjectSpec a required field
\* that is absent or null adds the 'is required' message and nothing else,
\* and a field whose typeof is not the declared type adds the type message and
\* nothing else: no range, length, custom or nested rule of the field adds a
\* message or raises.
C20_RulesShortCircuit ==
    /\ Validated
       => ShortCircuits(_moduleSchema, moduleSchemaKeys, moduleSpec,
                        validationResult.errors)
    /\ lastCall = "createProject"
       => ShortCircuits(_projectSchema, projectSchemaKeys, projectSpec,
                        projectValidation.errors)

\* C20 witness: the module validator has seen an absent name, a width of type
\* string and a null height, and the project validator an absent name and an
\* array of modules whose one module is invalid
C20_Witness ==
    /\ Validated
    /\ moduleSpec.name = Undefined
    /\ moduleSpec.width = Str(<<"4">>)
    /\ moduleSpec.height = Null
    /\ Len(validationResult.errors) = 3
    /\ lastCall = "createProject"
    /\ projectSpec.name = Undefined
    /\ projectSpec.modules = Arr(<<WideModuleSpec>>)
    /\ ErrorsFor(projectValidation.errors, "modules")
         = <<Message("modules", "must be of type", "")>>

-----------------------------------------------------------------------------
(* Per-element validation of a project's modules *)

\* the indices (from 0) of the elements createModule rejects
InvalidIndices(modules) ==
    {n \in 0..(Len(modules) - 1) : createModule(modules[n + 1]).isNull}

\* the indices (from 0) the messages 'Invalid module at index N' name
ReportedIndices(errors) ==
    {errors[i].index : i \in {j \in 1..Len(errors) :
                                 errors[j].rule = "Invalid module at index"}}

\* C21: when createProject is given an array of modules, the errors of the
\* project validation hold 'Invalid module at index N' for exactly the
\* indices N of the elements that are invalid modules.
C21_InvalidModulesReportedPerIndex ==
    (lastCall = "createProject" /\ projectSpec.modules.k = "array")
    => ReportedIndices(projectValidation.errors)
         = InvalidIndices(projectSpec.modules.a)

-----------------------------------------------------------------------------
(* The editor *)

\* a step in which createModuleModel builds a model
ProjectorRuns == scene /\ calls'.createModuleModel # calls.createModuleModel

\* C22: whenever the editor's createModuleModel builds a model, after any
\* dimension inputs and project loads, the width, height and depth of the
\* current module are within [2,42], [100,150] and [20,45].
C22_ProjectorOnValidatedModule ==
    [][ProjectorRuns => DimensionsInRange(currentModule)]_vars


\* C23: every control of the editor's control list has x and y in [0,100],
\* after any panel clicks, drags, removals, clear-all and project loads.
C23_ControlsWithinPanel ==
    \A i \in 1..Len(controls) :
        /\ 0 <= controls[i].x /\ controls[i].x <= 100
        /\ 0 <= controls[i].y /\ controls[i].y <= 100


\* a step that makes the control list longer
ListGrows == Len(controls') > Len(controls)

\* the step appends one control of the armed type and unsets add mode
ArmedClickAppends ==
    /\ addControlMode \in ControlTypes
    /\ addControlMode' = ""
    /\ Len(controls') = Len(controls) + 1
    /\ SubSeq(controls', 1, Len(controls)) = controls
    /\ controls'[Len(controls')].type = addControlMode

C25_LibraryModuleIsSnapshot ==
    [][\A k \in 1..Len(rackModules) :
          /\ k <= Len(rackModules')
          /\ rackModules'[k] = rackModules[k]]_vars


\* the controls the drags under way started on
DragStartedOn == {l.element : l \in listeners}

\* C26: while a drag is under way, a mousemove changes the x and y of the
\* control the drag started on and of no other control, whatever removals,
\* clear-all and project loads happened since the mousedown.
C26_DragMovesOnlyItsControl ==
    [][PointerMoves =>
          \A i \in 1..Len(controls) :
              controls'[i] # controls[i] => RefOf(controls[i]) \in DragStartedOn]_vars

-----------------------------------------------------------------------------
(* The project cache *)

\* the record getProjectById returns is the one the store holds under the id,
\* null when it holds none
ReturnsStored(cache, stored) ==
    \A id \in ProjectIds : getProjectById(cache, stored, id) = FindProject(stored, id)

\* a step of updateProject that returned null
UpdateFailed == lastCall' = "updateProject" /\ project'.isNull

\* C27: after every step of createProject, updateProject, deleteProject,
\* getProjectById and the application controller, getProjectById(id) returns
\* the record the store holds under id, and null when it holds none; and an
\* updateProject that fails leaves the store and every cached record as they
\* were.
C27_CacheAgreesWithStore ==
    [][/\ ReturnsStored(_projectCache', localStorage')
       /\ UpdateFailed =>
             /\ localStorage' = localStorage
             /\ \A id \in DOMAIN _projectCache :
                   /\ id \in DOMAIN _projectCache'
                   /\ _projectCache'[id] = _projectCache[id]]_vars

\* C27 witness: updateProject has failed on the project the store holds, which
\* the cache holds too
C27_Witness ==
    /\ lastCall = "updateProject"
    /\ project.isNull
    /\ ~found.isNull
    /\ CacheHas(_projectCache, projectId)
    /\ _projectCache[projectId] = FindProject(localStorage, projectId)
    /\ ~FindProject(localStorage, projectId).isNull

\* the rack width and the module widths of the project just examined, in
\* 1/Scale HP
RackWidthOf(p) == p.rack.width.n
FreeHP(p) ==
    IF RackWidthOf(p) > SumWidths(p.modules.a)
    THEN RackWidthOf(p) - SumWidths(p.modules.a) ELSE 0

\* C28: for a persisted project, validateRackUtilization reports
\* isOverUtilized exactly when the module widths sum to more HP than
\* rack.width, and remainingHP = max(0, rack.width - that sum).
C28_UtilizationAgainstRackWidth ==
    (lastCall = "validateRackUtilization" /\ ~utilization.isNull) =>
        /\ utilization.isOverUtilized <=>
              SumWidths(found.modules.a) > RackWidthOf(found)
        /\ utilization.remainingHP.num * Scale =
              FreeHP(found) * utilization.remainingHP.den

\* both projectors have run on the editor's design
BothProjected == scene /\ calls.createModuleModel > 0 /\ calls.create3DModel > 0

\* C29: for the same module dimensions and the same control list,
\* create3DModel and createModuleModel place every control at the same
\* (x, y, z) position with the same geometry.
C29_ProjectorsPlaceControlsAlike ==
    BothProjected =>
        /\ ~moduleGroup.isNull
        /\ ~currentModel.isNull
        /\ ServicePlacements = EditorPlacements

\* C30: the progress modal and the button's loading state are shown exactly
\* while at least one generateModel() call has not returned.
C30_ProgressShownWhileInFlight ==
    /\ progressModalHidden <=> inFlight = <<>>
    /\ btnLoading <=> inFlight # <<>>

=============================================================================
